---- MODULE Spec2Model ----
(***************************************************************************)
(* A model of memdata-mcp (src/src/index.ts): an MCP server whose ten      *)
(* tools each validate their arguments, send one or two authenticated      *)
(* HTTP requests to the remote MemData API and render the JSON answer as   *)
(* one text block.                                                         *)
(*                                                                         *)
(* Conventions.                                                            *)
(*  - A JavaScript/JSON value is a tagged record [t, v] (Undefined, Null,  *)
(*    Bool, Num, Str, Arr, Obj).  Objects are functions from keys to       *)
(*    values; a key that is not in the domain reads as undefined.  An      *)
(*    object with more keys than one may hold their order in a further     *)
(*    field keys, which only JSON.stringify reads.                         *)
(*  - Numbers are integers.  A similarity score is held in units of        *)
(*    1/10000, a result's rounded score in units of 1/1000, a narrative    *)
(*    insight's confidence in units of 1/1000.                             *)
(*  - Texts are strings.  The emoji of the source are written as ASCII     *)
(*    tokens ("(green)", "(ok)", ...) since a module holds ASCII only,     *)
(*    and a backquote of the source is written as an apostrophe.           *)
(***************************************************************************)
EXTENDS Integers, Sequences, FiniteSets, TLC

VARIABLES
  MEMDATA_API_KEY,   \* index.ts:21, read once from the environment
  MEMDATA_API_URL,   \* index.ts:22
  proc,              \* "loaded" | "connecting" | "serving" | "exited"
  exitCode,          \* NoExit, or the status the process exited with
  calls,             \* per invocation slot: the tool call in flight
  served,            \* number of tool handlers started in this run
  sent,              \* number of HTTP requests sent in this run
  nodeMajor          \* major version of the Node.js runtime the process runs on

vars ==
  <<MEMDATA_API_KEY, MEMDATA_API_URL, proc, exitCode, calls, served, sent, nodeMajor>>

-----------------------------------------------------------------------------
(* JavaScript values *)

Undefined == [t |-> "undefined"]
Null == [t |-> "null"]
Bool(b) == [t |-> "boolean", v |-> b]
Num(n) == [t |-> "number", v |-> n]
Str(s) == [t |-> "string", v |-> s]
Arr(q) == [t |-> "array", v |-> q]
Obj(f) == [t |-> "object", v |-> f]
EmptyObj == Obj(<<>>)
NaN == [t |-> "NaN"]

IsNullish(x) == x.t \in {"undefined", "null"}

\* ToBoolean: what '!x', 'x || y' and 'x ? a : b' test.
Truthy(x) ==
  CASE x.t = "undefined" -> FALSE
    [] x.t = "null" -> FALSE
    [] x.t = "boolean" -> x.v
    [] x.t = "number" -> x.v # 0
    [] x.t = "string" -> x.v # ""
    [] x.t = "NaN" -> FALSE
    [] OTHER -> TRUE

\* x || y
OrElse(x, y) == IF Truthy(x) THEN x ELSE y

\* o.k for a value o that is neither undefined nor null.
Get(o, k) == IF o.t = "object" /\ k \in DOMAIN o.v THEN o.v[k] ELSE Undefined

\* o?.k
GetOpt(o, k) == IF IsNullish(o) THEN Undefined ELSE Get(o, k)

RECURSIVE JoinStr(_, _)
JoinStr(q, sep) ==
  IF Len(q) = 0 THEN ""
  ELSE IF Len(q) = 1 THEN q[1]
  ELSE q[1] \o sep \o JoinStr(Tail(q), sep)

\* A value the model has none for: evaluating it fails.
NoValue(x) == CHOOSE y \in {} : y = x

\* ToPrimitive, which a template literal, an arithmetic operator and a
\* comparison apply to an operand that is an object: it calls the toString
\* (and valueOf) the object has.  An object of a parsed JSON text inherits
\* both, unless it has a key toString of its own: the value of that key is
\* no function, and the conversion throws a TypeError.  An array converts by
\* joining its elements, each converted likewise (undefined and null as "").
RECURSIVE Converts(_)
Converts(x) ==
  CASE x.t = "object" -> "toString" \notin DOMAIN x.v
    [] x.t = "array" -> \A i \in 1..Len(x.v) : Converts(x.v[i])
    [] OTHER -> TRUE

\* The message of that TypeError.
ConversionMessage == "Cannot convert object to primitive value"

\* What evaluating the conversions of the values q, in order, throws: <<>>
\* when each converts, else the message of the TypeError.
ConversionError(q) ==
  IF \A i \in 1..Len(q) : Converts(q[i]) THEN <<>> ELSE <<ConversionMessage>>

\* String(x), as a template literal '${x}' converts it.  It has no value
\* for an x that does not convert: the conversion throws.
RECURSIVE JSString(_)
JSString(x) ==
  CASE x.t = "undefined" -> "undefined"
    [] x.t = "null" -> "null"
    [] x.t = "boolean" -> IF x.v THEN "true" ELSE "false"
    [] x.t = "number" -> ToString(x.v)
    [] x.t = "string" -> x.v
    [] x.t \in {"NaN", "Infinity", "-Infinity"} -> x.t
    [] x.t = "array" ->
         JoinStr([i \in 1..Len(x.v) |->
                    IF IsNullish(x.v[i]) THEN "" ELSE JSString(x.v[i])], ",")
    [] OTHER -> IF Converts(x) THEN "[object Object]" ELSE NoValue(x)

\* JSON.stringify of a request body, as the value the text it writes stands
\* for: a property whose value is undefined is left out (nested objects
\* likewise), an element that is undefined is written null, and so is a
\* number that is not finite.
RECURSIVE JSONstringify(_)
JSONstringify(x) ==
  CASE x.t = "object" ->
         Obj([k \in {j \in DOMAIN x.v : x.v[j] # Undefined} |-> JSONstringify(x.v[k])])
    [] x.t = "array" -> Arr([i \in 1..Len(x.v) |-> JSONstringify(x.v[i])])
    [] x.t \in {"undefined", "NaN", "Infinity", "-Infinity"} -> Null
    [] OTHER -> x

\* text.includes(sub)
Contains(text, sub) ==
  \E i \in 1..(Len(text) - Len(sub) + 1) : SubSeq(text, i, i + Len(sub) - 1) = sub

\* The message V8 gives a property read of undefined or null.
TypeErrorMessage(x, k) ==
  "Cannot read properties of " \o JSString(x) \o " (reading '" \o k \o "')"

\* What an awaited call does: it returns a value or throws an Error.
Returned(v) == [threw |-> FALSE, message |-> "", value |-> v]
Thrown(m) == [threw |-> TRUE, message |-> m, value |-> Undefined]

-----------------------------------------------------------------------------
(* JavaScript numbers.  A number of the model is an integer count of a unit
   (1, 1/1000 or 1/10000); the arithmetic of the source is done on the IEEE
   754 doubles those stand for, so that a product such as 0.5005 * 1000 comes
   out at 500.49999999999994 as it does in the source.  What ToNumber makes
   of a value is NaN, an infinity or the exact fraction the value denotes;
   the double of a fraction is the double nearest to it.  A number too large
   for the integers of the model has no value in it: evaluating it fails. *)

Infinity == [t |-> "Infinity"]
NegInfinity == [t |-> "-Infinity"]

RECURSIVE Gcd(_, _)
Gcd(a, b) == IF b = 0 THEN a ELSE Gcd(b, a % b)

\* The fraction n / d (d > 0) in lowest terms.
Fraction(n, d) ==
  LET g == Gcd(IF n < 0 THEN 0 - n ELSE n, d)
  IN [t |-> "fraction", n |-> n \div g, d |-> d \div g]

IsFinite(x) == x.t = "fraction"

\* x > k for what ToNumber made of a value and an integer k; a comparison
\* with NaN is false.
GreaterThan(x, k) ==
  CASE x.t = "fraction" -> x.n > k * x.d
    [] x.t = "Infinity" -> TRUE
    [] OTHER -> FALSE

\* The value a text of digits to the base has, -1 for a character that is no
\* digit of the base.
DigitOf(c, base) ==
  LET digits == "0123456789abcdef"
      upper == "0123456789ABCDEF"
      found == {d \in 1..base : c \in {SubSeq(digits, d, d), SubSeq(upper, d, d)}}
  IN IF found = {} THEN 0 - 1 ELSE (CHOOSE d \in found : TRUE) - 1

AllDigits(s, base) == \A i \in 1..Len(s) : DigitOf(SubSeq(s, i, i), base) >= 0

RECURSIVE Digits(_, _)
Digits(s, base) ==
  IF s = "" THEN 0
  ELSE base * Digits(SubSeq(s, 1, Len(s) - 1), base)
         + DigitOf(SubSeq(s, Len(s), Len(s)), base)

RECURSIVE Pow10(_)
Pow10(n) == IF n = 0 THEN 1 ELSE 10 * Pow10(n - 1)

\* White space and line terminators, which StringToNumber trims: of those a
\* text of the model can hold.
StrWhiteSpace == {" ", "\t", "\n", "\r", "\f"}

Trim(s) ==
  LET kept == {i \in 1..Len(s) : SubSeq(s, i, i) \notin StrWhiteSpace}
  IN IF kept = {} THEN ""
     ELSE SubSeq(s, CHOOSE i \in kept : \A j \in kept : i <= j,
                    CHOOSE i \in kept : \A j \in kept : i >= j)

\* The index of the first character of a text that is in a set, 0 without.
FirstOf(s, chars) ==
  LET at == {i \in 1..Len(s) : SubSeq(s, i, i) \in chars}
  IN IF at = {} THEN 0 ELSE CHOOSE i \in at : \A j \in at : i <= j

\* A text without its leading (trailing) zeros.
RECURSIVE NoLeadingZeros(_)
NoLeadingZeros(s) ==
  IF s # "" /\ SubSeq(s, 1, 1) = "0" THEN NoLeadingZeros(SubSeq(s, 2, Len(s))) ELSE s

RECURSIVE NoTrailingZeros(_)
NoTrailingZeros(s) ==
  IF s # "" /\ SubSeq(s, Len(s), Len(s)) = "0"
  THEN NoTrailingZeros(SubSeq(s, 1, Len(s) - 1)) ELSE s

\* StrUnsignedDecimalLiteral: Infinity, or digits with at most one point (a
\* digit on one side of it at least) and an optional exponent part.
UnsignedToNumber(s) ==
  LET ePos == FirstOf(s, {"e", "E"})
      mantissa == IF ePos = 0 THEN s ELSE SubSeq(s, 1, ePos - 1)
      exponent == IF ePos = 0 THEN "" ELSE SubSeq(s, ePos + 1, Len(s))
      eSign == IF exponent # "" /\ SubSeq(exponent, 1, 1) \in {"+", "-"}
               THEN SubSeq(exponent, 1, 1) ELSE ""
      eDigits == IF eSign = "" THEN exponent ELSE SubSeq(exponent, 2, Len(exponent))
      dot == FirstOf(mantissa, {"."})
      whole == IF dot = 0 THEN mantissa ELSE SubSeq(mantissa, 1, dot - 1)
      after == IF dot = 0 THEN "" ELSE SubSeq(mantissa, dot + 1, Len(mantissa))
      frac == NoTrailingZeros(after)
      literal == /\ whole \o after # ""
                 /\ AllDigits(whole, 10) /\ AllDigits(after, 10)
                 /\ ePos = 0 \/ (eDigits # "" /\ AllDigits(eDigits, 10))
      m == Digits(NoLeadingZeros(whole \o frac), 10)
      e == (IF eSign = "-" THEN 0 - Digits(eDigits, 10) ELSE Digits(eDigits, 10)) - Len(frac)
  IN IF s = "Infinity" THEN Infinity
     ELSE IF ~literal THEN NaN
     ELSE IF m = 0 THEN Fraction(0, 1)
     ELSE IF e >= 0 THEN Fraction(m * Pow10(e), 1)
     ELSE Fraction(m, Pow10(0 - e))

\* NonDecimalIntegerLiteral: 0x, 0o or 0b and digits to that base, unsigned.
NonDecimalBase(s) ==
  IF Len(s) < 2 \/ SubSeq(s, 1, 1) # "0" THEN 0
  ELSE CASE SubSeq(s, 2, 2) \in {"x", "X"} -> 16
         [] SubSeq(s, 2, 2) \in {"o", "O"} -> 8
         [] SubSeq(s, 2, 2) \in {"b", "B"} -> 2
         [] OTHER -> 0

\* StringToNumber: white space is trimmed, the empty text is 0, a sign may
\* lead a decimal literal, anything that is no numeric literal is NaN.
StringToNumber(text) ==
  LET s == Trim(text)
      base == NonDecimalBase(s)
      sign == IF s = "" THEN "" ELSE SubSeq(s, 1, 1)
      n == UnsignedToNumber(IF sign \in {"+", "-"} THEN SubSeq(s, 2, Len(s)) ELSE s)
  IN IF s = "" THEN Fraction(0, 1)
     ELSE IF base # 0
     THEN (IF Len(s) > 2 /\ AllDigits(SubSeq(s, 3, Len(s)), base)
           THEN Fraction(Digits(SubSeq(s, 3, Len(s)), base), 1) ELSE NaN)
     ELSE IF sign # "-" THEN n
     ELSE IF n = Infinity THEN NegInfinity
     ELSE IF n = NaN THEN NaN
     ELSE Fraction(0 - n.n, n.d)

\* ToNumber, which the operators *, / and > apply to an operand; a number of
\* the model counts units of 1/one.  An array converts as the text it joins
\* to: the empty array as "", an array of one element as that element's
\* text, a longer one as a text with commas, which is no number.  It has no
\* value for an x that does not convert: the conversion throws.
RECURSIVE ToNumber(_, _)
ToNumber(x, one) ==
  CASE x.t = "number" -> Fraction(x.v, one)
    [] x.t \in {"NaN", "Infinity", "-Infinity"} -> x
    [] x.t = "null" -> Fraction(0, 1)
    [] x.t = "boolean" -> Fraction(IF x.v THEN 1 ELSE 0, 1)
    [] x.t = "string" -> StringToNumber(x.v)
    [] x.t = "array" ->
         IF ~Converts(x) THEN NoValue(x)
         ELSE IF Len(x.v) = 0 THEN Fraction(0, 1)
         ELSE IF Len(x.v) > 1 \/ x.v[1].t = "boolean" THEN NaN
         ELSE IF IsNullish(x.v[1]) THEN Fraction(0, 1)
         ELSE ToNumber(x.v[1], one)
    [] OTHER -> IF Converts(x) THEN NaN ELSE NoValue(x)

RECURSIVE Pow2(_)
Pow2(n) == IF n = 0 THEN 1 ELSE 2 * Pow2(n - 1)

RECURSIVE FromBits(_)
FromBits(q) ==
  IF Len(q) = 0 THEN 0 ELSE 2 * FromBits(SubSeq(q, 1, Len(q) - 1)) + q[Len(q)]

\* Long numbers are held in limbs of 12 bits, most significant first; these
\* are their bits.
BitsOfLimbs(q) ==
  [i \in 1..(12 * Len(q)) |-> (q[(i - 1) \div 12 + 1] \div Pow2(11 - ((i - 1) % 12))) % 2]

\* A double: its sign, its 53 significant bits from the most significant
\* (bits[1] = 1) and the exponent e of the first bit; no bits for zero.
DoubleZero == [neg |-> FALSE, bits |-> <<>>, e |-> 0]

\* Rounding to nearest, ties to even, of a value given by 53 or more leading
\* bits and by whether anything nonzero follows them.
RoundToDouble(neg, q, e, more) ==
  LET m == SubSeq(q, 1, 53)
      guard == Len(q) > 53 /\ q[54] = 1
      sticky == more \/ \E i \in 55..Len(q) : q[i] = 1
      up == guard /\ (sticky \/ m[53] = 1)
      zeros == {i \in 1..53 : m[i] = 0}
      last == CHOOSE j \in zeros : \A i \in zeros : i <= j
  IN IF ~up THEN [neg |-> neg, bits |-> m, e |-> e]
     ELSE IF zeros = {}
     THEN [neg |-> neg, bits |-> [i \in 1..53 |-> IF i = 1 THEN 1 ELSE 0], e |-> e + 1]
     ELSE [neg |-> neg,
           bits |-> [i \in 1..53 |-> IF i < last THEN m[i] ELSE IF i = last THEN 1 ELSE 0],
           e |-> e]

\* a / b scaled by a power of two into [1, 2): 2^e <= a / b < 2^(e + 1).
RECURSIVE Normalized(_, _, _)
Normalized(a, b, e) ==
  IF a < b THEN Normalized(2 * a, b, e - 1)
  ELSE IF a >= 2 * b THEN Normalized(a, 2 * b, e + 1)
  ELSE [a |-> a, b |-> b, e |-> e]

\* The first n limbs of the fraction r / b for r < b, and the remainder left.
RECURSIVE QuotientLimbs(_, _, _)
QuotientLimbs(r, b, n) ==
  IF n = 0 THEN [limbs |-> <<>>, rem |-> r]
  ELSE LET rest == QuotientLimbs((4096 * r) % b, b, n - 1)
       IN [limbs |-> <<(4096 * r) \div b>> \o rest.limbs, rem |-> rest.rem]

\* a / b for integers a and b, b not 0: the double nearest the quotient.
DoubleDiv(a, b) ==
  IF a = 0 THEN DoubleZero
  ELSE LET n == Normalized(IF a < 0 THEN 0 - a ELSE a, IF b < 0 THEN 0 - b ELSE b, 0)
           q == QuotientLimbs(n.a - n.b, n.b, 5)
       IN RoundToDouble((a < 0) # (b < 0), <<1>> \o BitsOfLimbs(q.limbs), n.e, q.rem # 0)

\* The limbs of (the number of the limbs q) * k + carry.
RECURSIVE TimesLimbs(_, _, _)
TimesLimbs(q, k, carry) ==
  IF Len(q) = 0 THEN <<carry>>
  ELSE LET t == q[Len(q)] * k + carry
       IN TimesLimbs(SubSeq(q, 1, Len(q) - 1), k, t \div 4096) \o <<t % 4096>>

\* d * k for a double d and an integer k from 1 to 4095.
DoubleTimes(d, k) ==
  IF Len(d.bits) = 0 THEN d
  ELSE LET padded == [i \in 1..60 |-> IF i <= 7 THEN 0 ELSE d.bits[i - 7]]
           limbs == [j \in 1..5 |-> FromBits(SubSeq(padded, 12 * j - 11, 12 * j))]
           product == BitsOfLimbs(TimesLimbs(limbs, k, 0))
           first == CHOOSE i \in 1..72 :
                      product[i] = 1 /\ \A j \in 1..(i - 1) : product[j] = 0
       IN RoundToDouble(d.neg, SubSeq(product, first, 72), d.e + 20 - first, FALSE)

\* Math.round(d): the nearest integer, a half going up (towards +Infinity).
MathRound(d) ==
  IF Len(d.bits) = 0 \/ d.e < 0 - 1 THEN 0
  ELSE LET whole == FromBits(SubSeq(d.bits, 1, d.e + 1))
           half == d.bits[d.e + 2] = 1
           above == \E i \in (d.e + 3)..53 : d.bits[i] = 1
       IN IF d.neg THEN 0 - (whole + IF half /\ above THEN 1 ELSE 0)
          ELSE whole + IF half THEN 1 ELSE 0

\* The double nearest to a fraction.
ToDouble(x) == DoubleDiv(x.n, x.d)

\* Math.round(x * k) for what ToNumber made of a value and an integer k from
\* 1 to 4095.
RoundTimes(x, k) ==
  IF IsFinite(x) THEN Num(MathRound(DoubleTimes(ToDouble(x), k))) ELSE x

\* A fraction that is a double itself: its denominator is a power of two.
IsDouble(x) == \E k \in 0..30 : Pow2(k) = x.d


\* x / y for what ToNumber made of two values, y above 0, as the fraction
\* the double quotient is nearest to.  Both operands are doubles when they
\* are divided; the model has the quotient of those that are doubles as they
\* stand (whole numbers, halves, quarters, ...).
Quotient(x, y) ==
  IF x = NaN THEN NaN
  ELSE IF ~IsFinite(y) THEN (IF IsFinite(x) THEN Fraction(0, 1) ELSE NaN)
  ELSE IF ~IsFinite(x) THEN x
  ELSE IF IsDouble(x) /\ IsDouble(y) THEN Fraction(x.n * y.d, x.d * y.n)
  ELSE NoValue(<<x, y>>)

-----------------------------------------------------------------------------
(* Transport helper: callAPI, callAPIGet, callAPIDelete *)

DefaultApiUrl == "https://memdata.ai"

\* What the remote API and the network make of one request, as the helper
\* meets it in its two awaits.  failed: fetch itself rejected, with an error
\* of the given message.  Otherwise fetch resolved with a response of the
\* given status, and then: broken: reading the body rejected, with an error
\* of the given message; else text is the raw body and json the body parsed
\* as JSON, or NotJson when it does not parse.
NotJson == [t |-> "notjson"]
Response(status, text, json) ==
  [failed |-> FALSE, broken |-> FALSE, message |-> "",
   status |-> status, text |-> text, json |-> json]
FetchRejected(message) ==
  [failed |-> TRUE, broken |-> FALSE, message |-> message,
   status |-> 0, text |-> "", json |-> NotJson]
BodyRejected(status, message) ==
  [failed |-> FALSE, broken |-> TRUE, message |-> message,
   status |-> status, text |-> "", json |-> NotJson]

\* The rejections as the fetch of Node.js words them: of fetch when the
\* network fails, and of text() or json() when the connection ends before
\* the body does.
NetworkError == FetchRejected("fetch failed")
Terminated(status) == BodyRejected(status, "terminated")

\* The runtimes the server runs on.  V8 words the SyntaxError of JSON.parse
\* differently from Node.js 20 on, and adds the line and column from
\* Node.js 22 on.
NodeMajors == {18, 20, 22}

(* JSON.parse as far as its failure: where in a text V8's parser gives up,
   and why.  A position is the number of characters before the cursor.  An
   outcome is Parsed, or a failure with the position pos, the wording why
   the newer runtimes give it ("" where they only name the token found) and
   whether the parser reported the token it found there (found) or an
   illegal one, and the major version of the runtime from which the wording
   is given (since); due is "" in an outcome. *)
Parsed == [due |-> "", ok |-> TRUE, pos |-> 0, why |-> "", found |-> TRUE, since |-> 20]
ParsedTo(p) == [due |-> "", ok |-> TRUE, pos |-> p, why |-> "", found |-> TRUE, since |-> 20]
UnexpectedSince(p, why, major) ==
  [due |-> "", ok |-> FALSE, pos |-> p, why |-> why, found |-> TRUE, since |-> major]
Unexpected(p, why) == UnexpectedSince(p, why, 20)
Illegal(p, why) ==
  [due |-> "", ok |-> FALSE, pos |-> p, why |-> why, found |-> FALSE, since |-> 20]

\* The character after position p, "" at the end of the text.
CharAt(text, p) == IF p < Len(text) THEN SubSeq(text, p + 1, p + 1) ELSE ""

JsonWhiteSpace == {" ", "\t", "\n", "\r"}
JsonDigits == {"0", "1", "2", "3", "4", "5", "6", "7", "8", "9"}
JsonControls == {"\n", "\r", "\t", "\f"}
JsonEscapes == {"\"", "\\", "/", "b", "f", "n", "r", "t", "u"}

\* The least (greatest) member of a set of positions; otherwise when the
\* set is empty.
Least(S, otherwise) == IF S = {} THEN otherwise ELSE CHOOSE i \in S : \A j \in S : i <= j
Greatest(S, otherwise) == IF S = {} THEN otherwise ELSE CHOOSE i \in S : \A j \in S : i >= j

\* The first position from p on whose character is not in a set; the end of
\* the text when there is none.
SkipAll(text, p, chars) ==
  Least({i \in p..(Len(text) - 1) : CharAt(text, i) \notin chars},
        IF p > Len(text) THEN p ELSE Len(text))

SkipWhitespace(text, p) == SkipAll(text, p, JsonWhiteSpace)

\* ScanJsonString from the position after the opening quote: the scan runs
\* to the next quote, backslash or control character (q; the end of the text
\* when there is none), c is the character there, escaped the one after a
\* backslash, bad the positions of a \u escape that hold no hex digit.
RECURSIVE ScanJsonString(_, _)
ScanUnicode(text, q, bad) ==
  IF bad # {} THEN Unexpected(Least(bad, q), "Bad Unicode escape in JSON")
  ELSE ScanJsonString(text, q + 6)

ScanStringChar(text, q, c, escaped) ==
  IF c = "" THEN Unexpected(q, "Unterminated string in JSON")
  ELSE IF c = "\"" THEN ParsedTo(q + 1)
  ELSE IF c # "\\" THEN Illegal(q, "Bad control character in string literal in JSON")
  ELSE IF escaped = "" THEN Unexpected(q + 1, "")
  ELSE IF escaped \notin JsonEscapes THEN Unexpected(q + 1, "Bad escaped character in JSON")
  ELSE IF escaped # "u" THEN ScanJsonString(text, q + 2)
  ELSE ScanUnicode(text, q, {i \in (q + 2)..(q + 5) : DigitOf(CharAt(text, i), 16) < 0})

ScanStringFrom(text, q) == ScanStringChar(text, q, CharAt(text, q), CharAt(text, q + 1))

ScanJsonString(text, p) ==
  ScanStringFrom(text, Least({i \in p..(Len(text) - 1) :
                                CharAt(text, i) \in {"\"", "\\"} \cup JsonControls},
                             Len(text)))

\* ParseJsonNumber from the position of its minus sign or first digit: first
\* is the position of the first digit, whole the one after the integer part,
\* frac the one after the fraction, sign the one of the first exponent digit.
NumberExponentDigits(text, sign) ==
  IF CharAt(text, sign) \notin JsonDigits
  THEN Unexpected(sign, "Exponent part is missing a number in JSON")
  ELSE ParsedTo(SkipAll(text, sign, JsonDigits))

NumberExponent(text, frac) ==
  IF CharAt(text, frac) \notin {"e", "E"} THEN ParsedTo(frac)
  ELSE NumberExponentDigits(text, IF CharAt(text, frac + 1) \in {"+", "-"}
                                  THEN frac + 2 ELSE frac + 1)

NumberFraction(text, whole, frac) ==
  IF frac = whole + 1 THEN Unexpected(frac, "Unterminated fractional number in JSON")
  ELSE NumberExponent(text, frac)

NumberWhole(text, zero, whole) ==
  IF zero /\ CharAt(text, whole) \in JsonDigits THEN Unexpected(whole, "")
  ELSE IF CharAt(text, whole) = "."
  THEN NumberFraction(text, whole, SkipAll(text, whole + 1, JsonDigits))
  ELSE NumberExponent(text, whole)

NumberFrom(text, first) ==
  IF CharAt(text, first) \notin JsonDigits
  THEN Unexpected(first, "No number after minus sign in JSON")
  ELSE IF CharAt(text, first) = "0" THEN NumberWhole(text, TRUE, first + 1)
  ELSE NumberWhole(text, FALSE, SkipAll(text, first, JsonDigits))

ParseJsonNumber(text, p) == NumberFrom(text, IF CharAt(text, p) = "-" THEN p + 1 ELSE p)

\* ScanLiteral: the position after the literal, or the first character that
\* does not spell it.
LiteralTo(p, k, length) == IF k = length THEN ParsedTo(p + k) ELSE Unexpected(p + k, "")

ScanLiteral(text, p, literal) ==
  LiteralTo(p, Greatest({k \in 0..Len(literal) :
                           p + k <= Len(text)
                             /\ SubSeq(literal, 1, k) = SubSeq(text, p + 1, p + k)}, 0),
            Len(literal))

\* What the parser is due next: a value ("value"), a property name
\* ("property") or what follows a value ("end"), from position pos, inside
\* the arrays and objects of open; why is the wording for a missing name.
Due(what, p, open, why) == [due |-> what, pos |-> p, open |-> open, why |-> why]

\* After the bracket that opens an object or an array: the closing bracket,
\* or the first member.
AfterOpening(text, inside, open, closing, member) ==
  IF CharAt(text, inside) = closing THEN Due("end", inside + 1, open, "") ELSE member

ValueScanned(scanned, open) ==
  IF scanned.ok THEN Due("end", scanned.pos, open, "") ELSE scanned

\* The wording for a missing property name: of the first of an object, and
\* of a later one.
FirstNameWhy == "Expected property name or '}' in JSON"
NextNameWhy == "Expected double-quoted property name in JSON"

\* A value is due at position p, where the character c is.
JsonValueOf(text, p, c, open) ==
  CASE c = "{" ->
         AfterOpening(text, SkipWhitespace(text, p + 1), open, "}",
                      Due("property", p + 1, open \o <<"object">>, FirstNameWhy))
    [] c = "[" ->
         AfterOpening(text, SkipWhitespace(text, p + 1), open, "]",
                      Due("value", p + 1, open \o <<"array">>, ""))
    [] c = "\"" -> ValueScanned(ScanJsonString(text, p + 1), open)
    [] c \in JsonDigits \cup {"-"} -> ValueScanned(ParseJsonNumber(text, p), open)
    [] c = "t" -> ValueScanned(ScanLiteral(text, p, "true"), open)
    [] c = "f" -> ValueScanned(ScanLiteral(text, p, "false"), open)
    [] c = "n" -> ValueScanned(ScanLiteral(text, p, "null"), open)
    [] OTHER -> Unexpected(p, "")

JsonValueAt(text, p, open) == JsonValueOf(text, p, CharAt(text, p), open)

JsonValue(text, from, open) == JsonValueAt(text, SkipWhitespace(text, from), open)

\* A property name is due: the name, then the colon.  A missing colon has
\* its own wording from Node.js 20 on after the first name of an object, and
\* from Node.js 22 on after a later one.
ColonSince(why) == IF why = FirstNameWhy THEN 20 ELSE 22

PropertyColon(text, colon, open, major) ==
  IF CharAt(text, colon) # ":"
  THEN UnexpectedSince(colon, "Expected ':' after property name in JSON", major)
  ELSE Due("value", colon + 1, open, "")

PropertyNamed(text, name, open, major) ==
  IF ~name.ok THEN name
  ELSE PropertyColon(text, SkipWhitespace(text, name.pos), open, major)

PropertyAt(text, p, open, why) ==
  IF CharAt(text, p) # "\"" THEN Unexpected(p, why)
  ELSE PropertyNamed(text, ScanJsonString(text, p + 1), open, ColonSince(why))

JsonProperty(text, from, open, why) == PropertyAt(text, SkipWhitespace(text, from), open, why)

\* A value has ended; the character c at position p follows it.
ValueEndOf(p, c, open) ==
  LET outer == SubSeq(open, 1, Len(open) - 1)
  IN IF Len(open) = 0
     THEN (IF c = "" THEN Parsed
           ELSE Unexpected(p, "Unexpected non-whitespace character after JSON"))
     ELSE IF open[Len(open)] = "object"
     THEN (IF c = ","
           THEN Due("property", p + 1, open, NextNameWhy)
           ELSE IF c = "}" THEN Due("end", p + 1, outer, "")
           ELSE Unexpected(p, "Expected ',' or '}' after property value in JSON"))
     ELSE (IF c = "," THEN Due("value", p + 1, open, "")
           ELSE IF c = "]" THEN Due("end", p + 1, outer, "")
           ELSE Unexpected(p, "Expected ',' or ']' after array element in JSON"))

JsonValueEndAt(text, p, open) == ValueEndOf(p, CharAt(text, p), open)

JsonValueEnd(text, from, open) == JsonValueEndAt(text, SkipWhitespace(text, from), open)

\* What is due is done, and gives what is due after it, or an outcome.
JsonStep(text, s) ==
  CASE s.due = "value" -> JsonValue(text, s.pos, s.open)
    [] s.due = "property" -> JsonProperty(text, s.pos, s.open, s.why)
    [] OTHER -> JsonValueEnd(text, s.pos, s.open)

\* ParseJsonValue: one loop over what is due, until the text is parsed or
\* the parser gives up.
RECURSIVE ParseJsonValue(_, _)
ParseJsonValue(text, s) == IF s.due = "" THEN s ELSE ParseJsonValue(text, JsonStep(text, s))

JsonParse(text) == ParseJsonValue(text, Due("value", 0, <<>>, ""))

\* The kind of token a character begins, as the messages tell them apart.
JsonTokenAt(text, p) ==
  LET c == CharAt(text, p) IN
  CASE c = "" -> "end"
    [] c = "\"" -> "string"
    [] c \in JsonDigits \cup {"-"} -> "number"
    [] OTHER -> "other"

\* The texts V8 takes for a value handed to JSON.parse by mistake.
JsonSpecialStrings == {"undefined", "NaN", "Infinity", "[object Object]"}

\* The source text V8 quotes in the message: all of it when shorter than 21
\* characters, else at most 10 characters each side of the position.
JsonErrorContext(text, pos) ==
  IF Len(text) < 21 THEN "\"" \o text \o "\""
  ELSE IF pos < 10 THEN "\"" \o SubSeq(text, 1, pos + 10) \o "\"..."
  ELSE IF pos < Len(text) - 10
  THEN "...\"" \o SubSeq(text, pos - 9, pos + 10) \o "\"..."
  ELSE "...\"" \o SubSeq(text, pos - 9, Len(text)) \o "\""

\* " (line L column C)" of a position: a line ends with \n, \r or \r\n.
JsonFileLocation(text, pos) ==
  LET breaks == {i \in 1..pos :
                   \/ SubSeq(text, i, i) = "\n"
                   \/ SubSeq(text, i, i) = "\r" /\ ~(i < pos /\ SubSeq(text, i + 1, i + 1) = "\n")}
      last == IF breaks = {} THEN 0 ELSE CHOOSE i \in breaks : \A j \in breaks : i >= j
  IN " (line " \o ToString(Cardinality(breaks) + 1)
       \o " column " \o ToString(pos - last + 1) \o ")"

\* The message of the SyntaxError for a text that is no JSON, on the
\* runtime of the given major version, from what the parser found.
JsonFailureMessage(text, major, failure) ==
  LET pos == failure.pos
      token == IF failure.found THEN JsonTokenAt(text, pos) ELSE "other"
      at == " at position " \o ToString(pos)
              \o (IF major < 22 THEN "" ELSE JsonFileLocation(text, pos))
  IN IF major >= failure.since /\ failure.why # "" THEN failure.why \o at
     ELSE IF token = "end" THEN "Unexpected end of JSON input"
     ELSE IF token = "number" THEN "Unexpected number in JSON" \o at
     ELSE IF token = "string" THEN "Unexpected string in JSON" \o at
     ELSE IF major < 20
     THEN "Unexpected token " \o CharAt(text, pos) \o " in JSON" \o at
     ELSE IF text \in JsonSpecialStrings THEN "\"" \o text \o "\" is not valid JSON"
     ELSE "Unexpected token '" \o CharAt(text, pos) \o "', "
            \o JsonErrorContext(text, pos) \o " is not valid JSON"

\* The message of the SyntaxError JSON.parse throws for a text that is no
\* JSON.
JsonParseMessage(text, major) == JsonFailureMessage(text, major, JsonParse(text))

\* The message of the SyntaxError response.json() throws for a body that is
\* no JSON: it depends on the body and on the runtime.
JsonSyntaxMessage(text) == JsonParseMessage(text, nodeMajor)

\* response.ok
ResponseOk(r) == r.status >= 200 /\ r.status <= 299

AuthorizationHeader == "Bearer " \o JSString(MEMDATA_API_KEY)

\* callAPI up to its await: the POST it hands to fetch.
callAPI(endpoint, body) ==
  [method |-> "POST",
   url |-> JSString(MEMDATA_API_URL) \o endpoint,
   headers |-> [Authorization |-> AuthorizationHeader,
                ContentType |-> "application/json"],
   body |-> JSONstringify(body)]

callAPIGet_ContentType(endpoint) ==
  [method |-> "GET",
   url |-> JSString(MEMDATA_API_URL) \o endpoint,
   headers |-> [Authorization |-> AuthorizationHeader,
                ContentType |-> "application/json"],
   body |-> Undefined]

\* callAPIGet up to its await.
callAPIGet(endpoint) ==
  [method |-> "GET",
   url |-> JSString(MEMDATA_API_URL) \o endpoint,
   headers |-> [Authorization |-> AuthorizationHeader],
   body |-> Undefined]

\* callAPIDelete up to its await.
callAPIDelete(endpoint) ==
  [method |-> "DELETE",
   url |-> JSString(MEMDATA_API_URL) \o endpoint,
   headers |-> [Authorization |-> AuthorizationHeader],
   body |-> Undefined]

\* The three helpers after their await: the same code in each.
ApiErrorMessage_NoBody(r) == "API error (" \o ToString(r.status) \o ")"

ApiErrorMessage(r) == "API error (" \o ToString(r.status) \o "): " \o r.text

\* A rejected fetch or body read throws the error it rejected with.
callAPIResult(r) ==
  IF r.failed \/ r.broken THEN Thrown(r.message)
  ELSE IF ~ResponseOk(r) THEN Thrown(ApiErrorMessage(r))
  ELSE IF r.json = NotJson THEN Thrown(JsonSyntaxMessage(r.text))
  ELSE Returned(r.json)

-----------------------------------------------------------------------------
(* API functions.  Each is split at its await: <name>Call is the request it
   hands to the transport helper, <name> is what it makes of the helper's
   outcome o (Returned(json) or Thrown(message)). *)

UnknownError == Str("Unknown error")

\* { success: false, message: result.error || 'Unknown error' }
RemoteFailure(result) ==
  [success |-> FALSE, message |-> OrElse(Get(result, "error"), UnknownError)]

\* catch (error) { return { success: false, message: error.message } }
CaughtFailure(o) == [success |-> FALSE, message |-> Str(o.message)]

\* '!result.success' throws a TypeError when the JSON body is null.
ReadsSuccess(result) == ~IsNullish(result)

\* (list || []).map(f): the elements f is applied to; a list that is truthy
\* but no array has no map function.
ListOrEmpty(list) == IF Truthy(list) THEN list ELSE Arr(<<>>)
NotAFunctionMessage(what) == what \o " is not a function"

\* Scores arrive in units of 1/10000; ScorePerMille of them make 1/1000.
ScorePerMille == 10

\* Math.round(r.similarity_score * 1000) / 1000, in units of 1/1000.
RoundScore(x) == RoundTimes(ToNumber(x, 1000 * ScorePerMille), 1000)

\* s.split('T')[0]
RECURSIVE BeforeT(_)
BeforeT(s) ==
  IF Len(s) = 0 \/ SubSeq(s, 1, 1) = "T" THEN ""
  ELSE SubSeq(s, 1, 1) \o BeforeT(SubSeq(s, 2, Len(s)))

\* What a callback does on one element is written <<>> when it returns and
\* <<message>> when it throws.  map, filter and forEach call it element by
\* element: the first element it throws on decides the error.
FirstError(errors) ==
  IF \A i \in 1..Len(errors) : errors[i] = <<>> THEN <<>>
  ELSE errors[CHOOSE i \in 1..Len(errors) :
                errors[i] # <<>> /\ \A j \in 1..(i - 1) : errors[j] = <<>>]

\* list.map(F), element by element.
Each(list, F(_)) == [i \in 1..Len(list) |-> F(list[i])]

\* The first element of a list that a property read throws on, 0 if none.
FirstNullish(q) ==
  IF \E i \in 1..Len(q) : IsNullish(q[i])
  THEN CHOOSE i \in 1..Len(q) : IsNullish(q[i]) /\ \A j \in 1..(i - 1) : ~IsNullish(q[j])
  ELSE 0

ingestContentCall_Name(content, name) ==
  callAPI("/api/memdata/ingest", Obj([content |-> content, name |-> name]))

ingestContentCall(content, name) ==
  callAPI("/api/memdata/ingest", Obj([content |-> content, sourceName |-> name]))

ingestContent(o) ==
  IF o.threw THEN o
  ELSE LET result == o.value IN
    IF ~ReadsSuccess(result) THEN Thrown(TypeErrorMessage(result, "success"))
    ELSE IF ~Truthy(Get(result, "success")) THEN Returned(RemoteFailure(result))
    ELSE Returned([success |-> TRUE,
                   artifactId |-> Get(result, "artifact_id"),
                   chunkCount |-> Get(result, "chunk_count")])

queryMemoryCall(query, limit) ==
  callAPI("/api/memdata/query", Obj([query |-> query, limit |-> limit]))

QueryItem(r) ==
  [text |-> Get(r, "chunk_text"),
   source |-> Get(r, "source_name"),
   score |-> RoundScore(Get(r, "similarity_score"))]

\* What the map callback of queryMemory throws on an item: on reading
\* chunk_text of null, or on multiplying a score that does not convert.
QueryItemError(r) ==
  IF IsNullish(r) THEN <<TypeErrorMessage(r, "chunk_text")>>
  ELSE ConversionError(<<Get(r, "similarity_score")>>)

queryMemory(o) ==
  IF o.threw THEN o
  ELSE LET result == o.value IN
    IF ~ReadsSuccess(result) THEN Thrown(TypeErrorMessage(result, "success"))
    ELSE IF ~Truthy(Get(result, "success")) THEN Returned(RemoteFailure(result))
    ELSE LET list == ListOrEmpty(Get(result, "results")) IN
      IF list.t # "array"
      THEN Thrown(NotAFunctionMessage("(result.results || []).map"))
      ELSE IF FirstError(Each(list.v, QueryItemError)) # <<>>
      THEN Thrown(FirstError(Each(list.v, QueryItemError))[1])
      ELSE Returned([success |-> TRUE,
                     narrative |-> Get(result, "narrative"),
                     narrative_count |-> Get(result, "narrative_count"),
                     results |-> [i \in 1..Len(list.v) |-> QueryItem(list.v[i])]])

listArtifactsCall(limit) ==
  callAPIGet("/api/memdata/artifacts?limit=" \o JSString(limit))

ArtifactItem(a) ==
  [id |-> Get(a, "id"),
   name |-> Get(a, "source_name"),
   type |-> Get(a, "type"),
   chunks |-> Get(a, "chunk_count"),
   date |-> Str(BeforeT(Get(a, "created_at").v))]

\* The first item the map callback throws on: an item that is null, or one
\* whose created_at has no split method (it is no string).  The callback runs
\* item by item, so the first such item decides the error.
FirstUndated(q) ==
  IF \E i \in 1..Len(q) : Get(q[i], "created_at").t # "string"
  THEN CHOOSE i \in 1..Len(q) :
         /\ Get(q[i], "created_at").t # "string"
         /\ \A j \in 1..(i - 1) : Get(q[j], "created_at").t = "string"
  ELSE 0

\* What the callback with parameter p throws on item x: on reading its first
\* property when x is null, else on calling split.
DateErrorMessage(x, p, first) ==
  IF IsNullish(x) THEN TypeErrorMessage(x, first)
  ELSE IF IsNullish(Get(x, "created_at")) THEN TypeErrorMessage(Get(x, "created_at"), "split")
  ELSE NotAFunctionMessage(p \o ".created_at.split")

listArtifacts(o) ==
  IF o.threw THEN o
  ELSE LET result == o.value IN
    IF ~ReadsSuccess(result) THEN Thrown(TypeErrorMessage(result, "success"))
    ELSE IF ~Truthy(Get(result, "success")) THEN Returned(RemoteFailure(result))
    ELSE LET list == ListOrEmpty(Get(result, "artifacts")) IN
      IF list.t # "array"
      THEN Thrown(NotAFunctionMessage("(result.artifacts || []).map"))
      ELSE IF FirstUndated(list.v) # 0
      THEN Thrown(DateErrorMessage(list.v[FirstUndated(list.v)], "a", "id"))
      ELSE Returned([success |-> TRUE,
                     artifacts |-> [i \in 1..Len(list.v) |-> ArtifactItem(list.v[i])]])

deleteArtifactCall(artifactId) ==
  callAPIDelete("/api/memdata/artifacts/" \o JSString(artifactId))

deleteArtifact_Message(o) ==
  IF o.threw THEN o
  ELSE LET result == o.value IN
    IF ~ReadsSuccess(result) THEN Thrown(TypeErrorMessage(result, "success"))
    ELSE IF ~Truthy(Get(result, "success"))
    THEN Returned([success |-> FALSE,
                   message |-> OrElse(Get(result, "message"), UnknownError)])
    ELSE Returned([success |-> TRUE,
                   deletedChunks |-> Get(result, "deleted_chunks"),
                   message |-> Get(result, "message")])

deleteArtifact(o) ==
  IF o.threw THEN o
  ELSE LET result == o.value IN
    IF ~ReadsSuccess(result) THEN Thrown(TypeErrorMessage(result, "success"))
    ELSE IF ~Truthy(Get(result, "success")) THEN Returned(RemoteFailure(result))
    ELSE Returned([success |-> TRUE,
                   deletedChunks |-> Get(result, "deleted_chunks"),
                   message |-> Get(result, "message")])

getIdentityCall == callAPIGet("/api/memdata/identity")

getIdentity(o) ==
  IF o.threw THEN Returned(CaughtFailure(o))
  ELSE LET result == o.value IN
    IF ~ReadsSuccess(result)
    THEN Returned(CaughtFailure(Thrown(TypeErrorMessage(result, "success"))))
    ELSE IF ~Truthy(Get(result, "success")) THEN Returned(RemoteFailure(result))
    ELSE Returned([success |-> TRUE,
                   identity |-> Get(result, "identity"),
                   last_session |-> Get(result, "last_session"),
                   working_on |-> Get(result, "working_on"),
                   memory_stats |-> Get(result, "memory_stats"),
                   recent_activity |-> Get(result, "recent_activity")])

\* ended_at is new Date().toISOString(), read when the body is built.
endSessionCall(summary, working_on, context, nowIso) ==
  callAPI("/api/memdata/identity",
          Obj([working_on |-> working_on,
               session_handoff |->
                 Obj([summary |-> summary,
                      context |-> OrElse(context, EmptyObj),
                      ended_at |-> Str(nowIso)])]))

endSession(o) ==
  IF o.threw THEN Returned(CaughtFailure(o))
  ELSE LET result == o.value IN
    IF ~ReadsSuccess(result)
    THEN Returned(CaughtFailure(Thrown(TypeErrorMessage(result, "success"))))
    ELSE IF ~Truthy(Get(result, "success")) THEN Returned(RemoteFailure(result))
    ELSE Returned([success |-> TRUE, message |-> Get(result, "message")])

updateIdentityCall_Null(agent_name, identity_summary) ==
  callAPI("/api/memdata/identity",
          Obj([agent_name |-> IF agent_name = Undefined THEN Null ELSE agent_name,
               identity_summary |->
                 IF identity_summary = Undefined THEN Null ELSE identity_summary]))

updateIdentityCall(agent_name, identity_summary) ==
  callAPI("/api/memdata/identity",
          Obj([agent_name |-> agent_name, identity_summary |-> identity_summary]))

updateIdentity(o) ==
  IF o.threw THEN Returned(CaughtFailure(o))
  ELSE LET result == o.value IN
    IF ~ReadsSuccess(result)
    THEN Returned(CaughtFailure(Thrown(TypeErrorMessage(result, "success"))))
    ELSE IF ~Truthy(Get(result, "success")) THEN Returned(RemoteFailure(result))
    ELSE Returned([success |-> TRUE, message |-> Get(result, "message")])

queryMemoryWithDatesCall_SinceTwice(queryText, limit, since, until) ==
  callAPI("/api/memdata/query",
          Obj([query |-> queryText,
               limit |-> limit,
               since |-> IF Truthy(since) THEN since ELSE Undefined,
               until |-> IF Truthy(since) THEN until ELSE Undefined]))

\* if (since) body.since = since; if (until) body.until = until;
queryMemoryWithDatesCall(queryText, limit, since, until) ==
  callAPI("/api/memdata/query",
          Obj([query |-> queryText,
               limit |-> limit,
               since |-> IF Truthy(since) THEN since ELSE Undefined,
               until |-> IF Truthy(until) THEN until ELSE Undefined]))

DatedQueryItem(r) ==
  [text |-> Get(r, "chunk_text"),
   source |-> Get(r, "source_name"),
   score |-> RoundScore(Get(r, "similarity_score")),
   date |-> Str(BeforeT(Get(r, "created_at").v))]

\* What the map callback of queryMemoryWithDates throws on an item: the
\* properties of the object it builds are evaluated in the order written,
\* the score before the date.
DatedItemError(r) ==
  IF IsNullish(r) THEN <<TypeErrorMessage(r, "chunk_text")>>
  ELSE IF ~Converts(Get(r, "similarity_score")) THEN <<ConversionMessage>>
  ELSE IF Get(r, "created_at").t # "string"
  THEN <<DateErrorMessage(r, "r", "chunk_text")>>
  ELSE <<>>

queryMemoryWithDates(o) ==
  IF o.threw THEN o
  ELSE LET result == o.value IN
    IF ~ReadsSuccess(result) THEN Thrown(TypeErrorMessage(result, "success"))
    ELSE IF ~Truthy(Get(result, "success")) THEN Returned(RemoteFailure(result))
    ELSE LET list == ListOrEmpty(Get(result, "results")) IN
      IF list.t # "array"
      THEN Thrown(NotAFunctionMessage("(result.results || []).map"))
      ELSE IF FirstError(Each(list.v, DatedItemError)) # <<>>
      THEN Thrown(FirstError(Each(list.v, DatedItemError))[1])
      ELSE Returned([success |-> TRUE,
                     results |-> [i \in 1..Len(list.v) |-> DatedQueryItem(list.v[i])]])

getRelationshipsCall(entity, type, limit) ==
  callAPI("/api/memdata/relationships",
          Obj([entity |-> entity, type |-> type, limit |-> limit]))

RelationshipItem(r) ==
  [name |-> Get(r, "name"),
   type |-> Get(r, "type"),
   strength |-> Get(r, "co_occurrence_count")]

getRelationships(o) ==
  IF o.threw THEN Returned(CaughtFailure(o))
  ELSE LET result == o.value IN
    IF ~ReadsSuccess(result)
    THEN Returned(CaughtFailure(Thrown(TypeErrorMessage(result, "success"))))
    ELSE IF ~Truthy(Get(result, "success"))
    THEN Returned([success |-> FALSE,
                   message |-> OrElse(Get(result, "error"),
                                      OrElse(Get(result, "message"), UnknownError))])
    ELSE LET list == ListOrEmpty(Get(result, "results")) IN
      IF list.t # "array"
      THEN Returned(CaughtFailure(Thrown(NotAFunctionMessage("(result.results || []).map"))))
      ELSE IF FirstNullish(list.v) # 0
      THEN Returned(CaughtFailure(
             Thrown(TypeErrorMessage(list.v[FirstNullish(list.v)], "name"))))
      ELSE Returned([success |-> TRUE,
                     entity_name |-> Get(result, "entity"),
                     entity_type |-> Get(result, "entity_type"),
                     relationships |->
                       [i \in 1..Len(list.v) |-> RelationshipItem(list.v[i])]])

usageCall == callAPIGet("/api/memdata/usage")
healthCall == callAPIGet("/api/memdata/health")

\* getStatus from its start to its first await.
getStatusCall == healthCall

getStatusHealth_Continue(o) ==
  [next |-> TRUE, isHealthy |-> Get(o.value, "status") = Str("ok"),
   out |-> Returned(Undefined)]

\* getStatus after the health request: the usage request it goes on to send,
\* or the failure its catch block returns.  next: whether it goes on.
getStatusHealth(o) ==
  IF o.threw THEN [next |-> FALSE, isHealthy |-> FALSE, out |-> Returned(CaughtFailure(o))]
  ELSE IF IsNullish(o.value)
  THEN [next |-> FALSE, isHealthy |-> FALSE,
        out |-> Returned(CaughtFailure(Thrown(TypeErrorMessage(o.value, "status"))))]
  ELSE [next |-> TRUE, isHealthy |-> Get(o.value, "status") = Str("ok"),
        out |-> Returned(Undefined)]

StoragePercent_Floor(storageUsed, storageLimit) ==
  LET used == ToNumber(storageUsed, 1)
      limit == ToNumber(storageLimit, 1)
      ratio == Quotient(used, limit)
  IN IF GreaterThan(limit, 0)
     THEN IF IsFinite(ratio) THEN Num((ratio.n * 100) \div ratio.d) ELSE ratio
     ELSE Num(0)

\* storageLimit > 0 ? Math.round((storageUsed / storageLimit) * 100) : 0
StoragePercent(storageUsed, storageLimit) ==
  LET used == ToNumber(storageUsed, 1)
      limit == ToNumber(storageLimit, 1)
  IN IF GreaterThan(limit, 0) THEN RoundTimes(Quotient(used, limit), 100) ELSE Num(0)

\* What computing the percent throws: the limit is compared first, and the
\* used figure is divided only under a limit above 0.
StorageError(storageUsed, storageLimit) ==
  IF ~Converts(storageLimit) THEN <<ConversionMessage>>
  ELSE IF GreaterThan(ToNumber(storageLimit, 1), 0) THEN ConversionError(<<storageUsed>>)
  ELSE <<>>

\* getStatus after the usage request.
getStatus(isHealthy, o) ==
  IF o.threw THEN Returned(CaughtFailure(o))
  ELSE LET usage == o.value IN
    IF IsNullish(usage)
    THEN Returned(CaughtFailure(Thrown(TypeErrorMessage(usage, "usage"))))
    ELSE LET storageUsed == OrElse(GetOpt(Get(usage, "usage"), "storage_used_mb"), Num(0))
             storageLimit == OrElse(GetOpt(Get(usage, "usage"), "storage_limit_mb"), Num(0))
         IN IF StorageError(storageUsed, storageLimit) # <<>>
            THEN Returned(CaughtFailure(Thrown(StorageError(storageUsed, storageLimit)[1])))
            ELSE
            Returned([success |-> TRUE,
                      healthy |-> isHealthy,
                      storage |-> [used_mb |-> storageUsed,
                                   limit_mb |-> storageLimit,
                                   percent |-> StoragePercent(storageUsed, storageLimit)]])

-----------------------------------------------------------------------------
(* Tool handlers: what each returns for its parsed arguments a and the
   outcome r of its API function. *)

\* { content: [{ type: 'text', text }], isError }; a result without an
\* isError property is written isError |-> FALSE.
ToolResult(text, isError) ==
  [content |-> <<[type |-> "text", text |-> text]>>, isError |-> isError]

\* catch (error) { return { ..., text: caught + message, isError: true } }
CatchBlock(caught, r) == ToolResult(caught \o r.message, TRUE)

\* if (!result.success) return { ..., text: prefix + result.message, isError:
\* true }, inside the try: a message that does not convert throws to the
\* catch block.
FailureBlock(prefix, caught, r) ==
  IF Converts(r.value.message)
  THEN ToolResult(prefix \o JSString(r.value.message), TRUE)
  ELSE CatchBlock(caught, Thrown(ConversionMessage))

\* The rest of a handler's try block: it returns the text, or what it throws
\* goes to the catch block.
TryBlock(caught, errors, text) ==
  IF errors # <<>> THEN CatchBlock(caught, Thrown(errors[1])) ELSE ToolResult(text, FALSE)

memdata_ingest(a, r) ==
  IF r.threw THEN CatchBlock("Failed to ingest content: ", r)
  ELSE IF ~r.value.success
  THEN FailureBlock("Failed to ingest: ", "Failed to ingest content: ", r)
  ELSE TryBlock(
         "Failed to ingest content: ",
         ConversionError(<<a.name, r.value.chunkCount, r.value.artifactId>>),
         "(ok) Stored in memory:\n- Source: " \o JSString(a.name)
           \o "\n- Chunks: " \o JSString(r.value.chunkCount)
           \o "\n- ID: " \o JSString(r.value.artifactId)
           \o "\n\n(tag) AI tagging & narrative extraction will run in background (~2 min).")

MathMin_Max(x, y) == IF x > y THEN x ELSE y

\* Math.min(x, y) of two integers
MathMin(x, y) == IF x < y THEN x ELSE y

\* Math.min(limit, cap) of the number a limit parameter holds, which may be
\* an infinite one.
MinLimit(limit, cap) ==
  CASE limit = Infinity -> Num(cap)
    [] limit = NegInfinity -> NegInfinity
    [] OTHER -> Num(MathMin(limit.v, cap))

\* n >= limit for a count n and the number a limit parameter holds.
ReachesLimit(n, limit) ==
  CASE limit = Infinity -> FALSE
    [] limit = NegInfinity -> TRUE
    [] OTHER -> n >= limit.v

QueryLimitCap == 20
ListLimitCap == 50

\* Thresholds of getMatchQuality, in units of 1/1000.
StrongScore == 700
GoodScore == 500
PartialScore == 350

getMatchQuality_Exclusive(score) ==
  IF score = Infinity THEN "(green)"
  ELSE IF score.t # "number" THEN "(red)"
  ELSE IF score.v > StrongScore THEN "(green)"
  ELSE IF score.v > GoodScore THEN "(yellow)"
  ELSE IF score.v > PartialScore THEN "(orange)"
  ELSE "(red)"

\* getMatchQuality(score); every comparison with NaN is false.
getMatchQuality(score) ==
  IF score = Infinity THEN "(green)"
  ELSE IF score.t # "number" THEN "(red)"
  ELSE IF score.v >= StrongScore THEN "(green)"
  ELSE IF score.v >= GoodScore THEN "(yellow)"
  ELSE IF score.v >= PartialScore THEN "(orange)"
  ELSE "(red)"

Abs(n) == IF n < 0 THEN -n ELSE n

\* (score * 100).toFixed(1) for a score in units of 1/1000.
PercentFixed1(score) ==
  IF score.t # "number" THEN JSString(score)
  ELSE (IF score.v < 0 THEN "-" ELSE "")
         \o ToString(Abs(score.v) \div 10) \o "." \o ToString(Abs(score.v) % 10)

QueryLine(r, i) ==
  "[" \o ToString(i) \o "] " \o getMatchQuality(r.score) \o " "
    \o PercentFixed1(r.score) \o "% | " \o JSString(r.source) \o "\n" \o JSString(r.text)

\* Math.round(n.confidence * 100) for a confidence in units of 1/1000.
ConfidencePercent(c) == RoundTimes(ToNumber(c, 1000), 100)

InsightLine_Confident(n) ==
  IF Get(n, "confidence").v >= 500
  THEN "  * " \o JSString(Get(n, "content")) \o " ("
         \o JSString(ConfidencePercent(Get(n, "confidence"))) \o "%)"
  ELSE ""

InsightLine(n) ==
  "  * " \o JSString(Get(n, "content")) \o " ("
    \o JSString(ConfidencePercent(Get(n, "confidence"))) \o "%)"

NarrativeGroups == <<"decisions", "causality", "patterns", "implications", "gaps">>
NarrativeTitles == <<"DECISIONS", "CAUSALITY", "PATTERNS", "IMPLICATIONS", "GAPS">>

\* result.narrative.<group>?.length is truthy: an array or a text that is
\* not empty, or an object with a truthy length.
HasInsights(narrative, g) ==
  LET list == Get(narrative, g) IN
  CASE list.t \in {"array", "string"} -> Len(list.v) > 0
    [] list.t = "object" -> Truthy(Get(list, "length"))
    [] OTHER -> FALSE

\* What the callback of a group throws on an insight: on reading n.content
\* of null, or on converting its content or its confidence.
InsightItemError(n) ==
  IF IsNullish(n) THEN <<TypeErrorMessage(n, "content")>>
  ELSE ConversionError(<<Get(n, "content"), Get(n, "confidence")>>)

\* What rendering a group throws, <<>> when it renders: a group that is no
\* array has no map, and the callback runs insight by insight.
InsightError(narrative, g) ==
  LET list == Get(narrative, g) IN
  IF list.t # "array"
  THEN <<NotAFunctionMessage("result.narrative." \o g \o ".map")>>
  ELSE FirstError(Each(list.v, InsightItemError))

\* The error of the first group, in the order rendered, that throws.
RECURSIVE NarrativeErrors(_, _)
NarrativeErrors(narrative, k) ==
  IF k > 5 THEN <<>>
  ELSE IF HasInsights(narrative, NarrativeGroups[k])
          /\ InsightError(narrative, NarrativeGroups[k]) # <<>>
  THEN InsightError(narrative, NarrativeGroups[k])
  ELSE NarrativeErrors(narrative, k + 1)

NarrativePart(narrative, k) ==
  LET list == Get(narrative, NarrativeGroups[k]).v IN
  NarrativeTitles[k] \o ":\n" \o JoinStr([i \in 1..Len(list) |-> InsightLine(list[i])], "\n")

RECURSIVE NarrativeParts(_, _)
NarrativeParts(narrative, k) ==
  IF k > Len(NarrativeGroups) THEN <<>>
  ELSE (IF HasInsights(narrative, NarrativeGroups[k])
        THEN <<NarrativePart(narrative, k)>> ELSE <<>>)
       \o NarrativeParts(narrative, k + 1)

\* (result.narrative_count ?? 0) > 0
CountPositive(c) ==
  ~IsNullish(c) /\ GreaterThan(ToNumber(c, 1), 0)

\* result.narrative && (result.narrative_count ?? 0) > 0
NarrativeGuard(result) == Truthy(result.narrative) /\ CountPositive(result.narrative_count)

\* What the narrative part of the handler throws: on comparing a count that
\* does not convert, or on rendering a group.
NarrativeError(result) ==
  IF ~Truthy(result.narrative) THEN <<>>
  ELSE IF ~Converts(result.narrative_count) THEN <<ConversionMessage>>
  ELSE IF CountPositive(result.narrative_count) THEN NarrativeErrors(result.narrative, 1)
  ELSE <<>>

\* What rendering a result line throws.
QueryLineError(r) == ConversionError(<<r.source, r.text>>)

narrativeSection(result) ==
  IF NarrativeGuard(result) /\ Len(NarrativeParts(result.narrative, 1)) > 0
  THEN "\n\n=== NARRATIVE INSIGHTS ===\n"
         \o JoinStr(NarrativeParts(result.narrative, 1), "\n\n")
  ELSE ""

scoreLegend ==
  "\n\n---\n_Match quality: (green) >70% strong | (yellow) >50% good | (orange) >35% partial | (red) weak_"

memdata_query(a, r) ==
  IF r.threw THEN CatchBlock("Failed to query memory: ", r)
  ELSE IF ~r.value.success
  THEN FailureBlock("Failed to query: ", "Failed to query memory: ", r)
  ELSE IF Len(r.value.results) = 0
  THEN ToolResult("No relevant memories found for this query.", FALSE)
  ELSE TryBlock(
         "Failed to query memory: ",
         FirstError(Each(r.value.results, QueryLineError) \o <<NarrativeError(r.value)>>),
         "Found " \o ToString(Len(r.value.results)) \o " relevant memories:\n\n"
           \o JoinStr([i \in 1..Len(r.value.results) |-> QueryLine(r.value.results[i], i)],
                      "\n\n---\n\n")
           \o narrativeSection(r.value) \o scoreLegend)

ArtifactLine(x) ==
  "- " \o JSString(x.name) \o " (" \o JSString(x.chunks) \o " chunks, "
    \o JSString(x.date) \o ")\n  ID: " \o JSString(x.id)

ArtifactLineError(x) == ConversionError(<<x.name, x.chunks, x.date, x.id>>)

\* result.artifacts.length >= limit, with limit the handler's own argument
countNote(artifacts, limit) ==
  IF ReachesLimit(Len(artifacts), limit)
  THEN "\n\n_Showing " \o ToString(Len(artifacts)) \o " memories. Use 'limit' param for more._"
  ELSE ""

memdata_list(a, r) ==
  IF r.threw THEN CatchBlock("Failed to list memories: ", r)
  ELSE IF ~r.value.success
  THEN FailureBlock("Failed to list: ", "Failed to list memories: ", r)
  ELSE IF Len(r.value.artifacts) = 0
  THEN ToolResult("No memories stored yet. Use memdata_ingest to add content.", FALSE)
  ELSE TryBlock(
         "Failed to list memories: ",
         FirstError(Each(r.value.artifacts, ArtifactLineError)),
         "Stored memories (" \o ToString(Len(r.value.artifacts)) \o "):\n\n"
           \o JoinStr([i \in 1..Len(r.value.artifacts) |-> ArtifactLine(r.value.artifacts[i])],
                      "\n")
           \o countNote(r.value.artifacts, a.limit))

memdata_delete(a, r) ==
  IF r.threw THEN CatchBlock("Failed to delete: ", r)
  ELSE IF ~r.value.success THEN FailureBlock("Failed to delete: ", "Failed to delete: ", r)
  ELSE TryBlock(
         "Failed to delete: ",
         ConversionError(<<r.value.deletedChunks>>),
         "Successfully deleted artifact and " \o JSString(r.value.deletedChunks) \o " chunks.")

memdata_status(a, r) ==
  IF r.threw THEN CatchBlock("Failed to get status: ", r)
  ELSE IF ~r.value.success
  THEN FailureBlock("Failed to get status: ", "Failed to get status: ", r)
  ELSE TryBlock(
         "Failed to get status: ",
         ConversionError(<<r.value.storage.used_mb, r.value.storage.limit_mb,
                           r.value.storage.percent>>),
         "MemData Status:\n- API: " \o (IF r.value.healthy THEN "Healthy" ELSE "Unhealthy")
           \o "\n- Storage: " \o JSString(r.value.storage.used_mb) \o " MB / "
           \o JSString(r.value.storage.limit_mb) \o " MB ("
           \o JSString(r.value.storage.percent) \o "% used)")

\* A value a Set finds again by its value: a text, number, boolean, null or
\* undefined.  An object or array is found again only when it is the same
\* one, and those of a parsed answer are all different ones.
ComparedByValue(x) == x.t \notin {"object", "array"}

\* The elements of a sequence in order, without those whose source was seen.
RECURSIVE uniqueRecent(_, _)
uniqueRecent(recent, seen) ==
  LET source == Get(recent[1], "source") IN
  IF Len(recent) = 0 THEN <<>>
  ELSE IF ComparedByValue(source) /\ source \in seen THEN uniqueRecent(Tail(recent), seen)
  ELSE <<recent[1]>>
         \o uniqueRecent(Tail(recent),
                         IF ComparedByValue(source) THEN seen \cup {source} ELSE seen)

RecentShown == 5

\* q.slice(0, n)
Slice0(q, n) == SubSeq(q, 1, MathMin(n, Len(q)))

RecentLine(x) == "- " \o JSString(Get(x, "source")) \o " (" \o JSString(Get(x, "date")) \o ")\n"

RECURSIVE ConcatAll(_)
ConcatAll(q) == IF Len(q) = 0 THEN "" ELSE q[1] \o ConcatAll(Tail(q))

\* A set's elements in a sequence.
RECURSIVE SetToSeq(_)
SetToSeq(S) ==
  IF S = {} THEN <<>> ELSE LET x == CHOOSE y \in S : TRUE IN <<x>> \o SetToSeq(S \ {x})

\* QuoteJSONString: the text between double quotes, with a double quote, a
\* backslash and a control character escaped.
JsonEscape(c) ==
  CASE c = "\"" -> "\\\""
    [] c = "\\" -> "\\\\"
    [] c = "\n" -> "\\n"
    [] c = "\r" -> "\\r"
    [] c = "\t" -> "\\t"
    [] c = "\f" -> "\\f"
    [] OTHER -> c

JsonQuote(text) ==
  "\"" \o ConcatAll([i \in 1..Len(text) |-> JsonEscape(SubSeq(text, i, i))]) \o "\""

\* What JSON.stringify writes for a value that is no object and no array.
JsonScalar(x) ==
  CASE x.t = "string" -> JsonQuote(x.v)
    [] x.t \in {"NaN", "Infinity", "-Infinity"} -> "null"
    [] OTHER -> JSString(x)

\* Object.keys(x) of an object: the keys in the order the object has them.
\* An object of the model holds that order in a field keys when it has more
\* keys than one; without the field the model has no order for them.
KeysOf(x) ==
  IF "keys" \in DOMAIN x THEN x.keys
  ELSE IF Cardinality(DOMAIN x.v) <= 1 THEN SetToSeq(DOMAIN x.v)
  ELSE NoValue(x)

\* JSON.stringify(x, null, 2) from the indentation pad on: each element of an
\* array and each property of an object on a line of its own, two spaces
\* further in; a property whose value is undefined is left out, an element
\* that is undefined is written null.
RECURSIVE JsonIndented(_, _)
JsonIndented(x, pad) ==
  CASE x.t = "array" ->
         IF Len(x.v) = 0 THEN "[]"
         ELSE "[\n"
                \o JoinStr([i \in 1..Len(x.v) |->
                              pad \o "  "
                                \o (IF x.v[i] = Undefined THEN "null"
                                    ELSE JsonIndented(x.v[i], pad \o "  "))], ",\n")
                \o "\n" \o pad \o "]"
    [] x.t = "object" ->
         LET keys == SelectSeq(KeysOf(x), LAMBDA k : x.v[k] # Undefined) IN
         IF Len(keys) = 0 THEN "{}"
         ELSE "{\n"
                \o JoinStr([i \in 1..Len(keys) |->
                              pad \o "  " \o JsonQuote(keys[i]) \o ": "
                                \o JsonIndented(x.v[keys[i]], pad \o "  ")], ",\n")
                \o "\n" \o pad \o "}"
    [] OTHER -> JsonScalar(x)

\* JSON.stringify(x, null, 2)
PrettyJson(x) == JsonIndented(x, "")

\* Object.keys(x).length > 0
HasKeys(x) ==
  CASE x.t = "object" -> DOMAIN x.v # {}
    [] x.t = "array" -> Len(x.v) > 0
    [] x.t = "string" -> Len(x.v) > 0
    [] OTHER -> FALSE

\* x.length > 0 for an object x
HasLength(x) == GreaterThan(ToNumber(Get(x, "length"), 1), 0)

\* x > 1
GreaterThanOne(x) == GreaterThan(ToNumber(x, 1), 1)

RecentSection_SliceFirst(recent) ==
  IF Len(recent) > 0
  THEN "## Recent Activity\n"
         \o ConcatAll([i \in 1..Len(uniqueRecent(Slice0(recent, RecentShown), {})) |->
                         RecentLine(uniqueRecent(Slice0(recent, RecentShown), {})[i])])
  ELSE ""

RecentSection(recent) ==
  IF Len(recent) > 0
  THEN "## Recent Activity\n"
         \o ConcatAll([i \in 1..Len(Slice0(uniqueRecent(recent, {}), RecentShown)) |->
                         RecentLine(Slice0(uniqueRecent(recent, {}), RecentShown)[i])])
  ELSE ""

WhoAmIText(result, identity, stats, recent) ==
  "# Who Am I\n\n"
    \o "**Name:** " \o JSString(OrElse(Get(identity, "agent_name"), Str("Not set"))) \o "\n"
    \o "**Identity:** "
    \o JSString(OrElse(Get(identity, "identity_summary"), Str("Not set"))) \o "\n"
    \o "**Session #:** " \o JSString(Get(identity, "session_count")) \o "\n"
    \o (IF ~Truthy(Get(identity, "agent_name")) /\ ~Truthy(Get(identity, "identity_summary"))
        THEN "\n> (bulb) **First time?** Set your identity with 'memdata_set_identity' to personalize your memory.\n"
        ELSE "")
    \o "\n"
    \o (IF Truthy(result.working_on)
        THEN "## (target) Continue Working On\n" \o JSString(result.working_on) \o "\n\n"
        ELSE "")
    \o (IF Truthy(result.last_session) /\ HasKeys(result.last_session)
        THEN "## Last Session Handoff\n" \o PrettyJson(result.last_session) \o "\n\n"
        ELSE "")
    \o "## Memory Stats\n"
    \o "- Total memories: " \o JSString(Get(stats, "total_memories")) \o "\n"
    \o "- Oldest: " \o JSString(OrElse(Get(stats, "oldest_memory"), Str("None"))) \o "\n"
    \o "- Newest: " \o JSString(OrElse(Get(stats, "newest_memory"), Str("None"))) \o "\n\n"
    \o RecentSection(recent)
    \o (IF GreaterThanOne(Get(identity, "session_count")) /\ ~Truthy(result.working_on)
        THEN "\n> (bulb) **Tip:** Use 'memdata_session_end' before ending to preserve context for next time.\n"
        ELSE "")

\* What reading a property k of x throws.
ReadError(x, k) == IF IsNullish(x) THEN <<TypeErrorMessage(x, k)>> ELSE <<>>

RecentLineError(x) == ConversionError(<<Get(x, "source"), Get(x, "date")>>)

\* What the recent-activity part throws: recent.length > 0 converts the
\* length an object has; a text and an object of positive length have no
\* filter; the filter callback reads r.source of each entry; the lines of the
\* entries shown convert their source and date.
RecentError(recent) ==
  CASE recent.t = "string" -> <<NotAFunctionMessage("recent.filter")>>
    [] recent.t = "object" ->
         IF ~Converts(Get(recent, "length")) THEN <<ConversionMessage>>
         ELSE IF HasLength(recent) THEN <<NotAFunctionMessage("recent.filter")>>
         ELSE <<>>
    [] recent.t = "array" ->
         IF FirstNullish(recent.v) # 0
         THEN <<TypeErrorMessage(recent.v[FirstNullish(recent.v)], "source")>>
         ELSE FirstError(Each(Slice0(uniqueRecent(recent.v, {}), RecentShown),
                              RecentLineError))
    [] OTHER -> <<>>

\* What building the text throws, statement by statement.
WhoAmIError(result, identity, stats, recent) ==
  FirstError(
    <<ReadError(identity, "agent_name"),
      ConversionError(<<OrElse(Get(identity, "agent_name"), Str("Not set")),
                        OrElse(Get(identity, "identity_summary"), Str("Not set")),
                        Get(identity, "session_count")>>),
      IF Truthy(result.working_on) THEN ConversionError(<<result.working_on>>) ELSE <<>>,
      ReadError(stats, "total_memories"),
      ConversionError(<<Get(stats, "total_memories"),
                        OrElse(Get(stats, "oldest_memory"), Str("None")),
                        OrElse(Get(stats, "newest_memory"), Str("None"))>>),
      RecentError(recent)>>)

memdata_whoami(a, r) ==
  IF r.threw THEN CatchBlock("Failed to get identity: ", r)
  ELSE IF ~r.value.success
  THEN FailureBlock("Failed to get identity: ", "Failed to get identity: ", r)
  ELSE TryBlock(
         "Failed to get identity: ",
         WhoAmIError(r.value, r.value.identity, r.value.memory_stats,
                     OrElse(r.value.recent_activity, Arr(<<>>))),
         WhoAmIText(r.value, r.value.identity, r.value.memory_stats,
                    IF OrElse(r.value.recent_activity, Arr(<<>>)).t = "array"
                    THEN OrElse(r.value.recent_activity, Arr(<<>>)).v ELSE <<>>))

SummaryShown == 100

\* s.substring(0, n)
Substring0(s, n) == SubSeq(s, 1, MathMin(n, Len(s)))

memdata_session_end(a, r) ==
  IF r.threw THEN CatchBlock("Failed to save handoff: ", r)
  ELSE IF ~r.value.success
  THEN FailureBlock("Failed to save handoff: ", "Failed to save handoff: ", r)
  ELSE ToolResult(
         "Session handoff saved.\n\nNext session will see:\n- Working on: "
           \o JSString(OrElse(a.working_on, Str("Not specified")))
           \o "\n- Summary: " \o Substring0(a.summary.v, SummaryShown) \o "...",
         FALSE)

memdata_set_identity(a, r) ==
  IF r.threw THEN CatchBlock("Failed to update identity: ", r)
  ELSE IF ~r.value.success
  THEN FailureBlock("Failed to update identity: ", "Failed to update identity: ", r)
  ELSE ToolResult(
         "Identity updated:\n- Name: " \o JSString(OrElse(a.agent_name, Str("(unchanged)")))
           \o "\n- Summary: " \o JSString(OrElse(a.identity_summary, Str("(unchanged)"))),
         FALSE)

RelationshipLine(x) ==
  "- **" \o JSString(x.name) \o "** (" \o JSString(x.type) \o ") - "
    \o JSString(x.strength) \o " co-occurrences\n"

RelationshipLineError(x) == ConversionError(<<x.name, x.type, x.strength>>)

memdata_relationships(a, r) ==
  IF r.threw THEN CatchBlock("Failed to get relationships: ", r)
  ELSE IF ~r.value.success
  THEN FailureBlock("Failed to get relationships: ", "Failed to get relationships: ", r)
  ELSE IF Len(r.value.relationships) = 0
  THEN ToolResult("No relationships found for \"" \o JSString(a.entity) \o "\".", FALSE)
  ELSE TryBlock(
         "Failed to get relationships: ",
         FirstError(<<ConversionError(<<r.value.entity_name, r.value.entity_type>>)>>
                      \o Each(r.value.relationships, RelationshipLineError)),
         "# Relationships for " \o JSString(r.value.entity_name) \o " ("
           \o JSString(r.value.entity_type) \o ")\n\n"
           \o ConcatAll([i \in 1..Len(r.value.relationships) |->
                           RelationshipLine(r.value.relationships[i])]))

DatedQueryLine(x, i) ==
  "[" \o ToString(i) \o "] " \o getMatchQuality(x.score) \o " "
    \o PercentFixed1(x.score) \o "% | " \o JSString(x.date) \o " | "
    \o JSString(x.source) \o "\n" \o JSString(x.text)

NoMemoriesText(a) ==
  "No memories found for \"" \o JSString(a.query) \o "\""
    \o (IF Truthy(a.since) \/ Truthy(a.until)
        THEN " in date range " \o JSString(OrElse(a.since, Str("start")))
               \o " to " \o JSString(OrElse(a.until, Str("now")))
        ELSE "")

memdata_query_timerange(a, r) ==
  IF r.threw THEN CatchBlock("Failed to query memory: ", r)
  ELSE IF ~r.value.success
  THEN FailureBlock("Failed to query: ", "Failed to query memory: ", r)
  ELSE IF Len(r.value.results) = 0 THEN ToolResult(NoMemoriesText(a), FALSE)
  ELSE TryBlock(
         "Failed to query memory: ",
         FirstError(Each(r.value.results, QueryLineError)),
         "Found " \o ToString(Len(r.value.results)) \o " memories:\n\n"
           \o JoinStr([i \in 1..Len(r.value.results) |->
                         DatedQueryLine(r.value.results[i], i)], "\n\n---\n\n"))

-----------------------------------------------------------------------------
(* Tool registry: the parameter schema of each server.tool(...) call *)

Tools ==
  {"memdata_ingest", "memdata_query", "memdata_list", "memdata_delete",
   "memdata_status", "memdata_whoami", "memdata_session_end",
   "memdata_set_identity", "memdata_relationships", "memdata_query_timerange"}

\* z.string(), z.number(), z.record(z.unknown()); .optional(); .default(d)
ZString == [type |-> "string", optional |-> FALSE, default |-> Undefined]
ZNumber == [type |-> "number", optional |-> FALSE, default |-> Undefined]
ZRecord == [type |-> "object", optional |-> FALSE, default |-> Undefined]
ZOptional(z) == [z EXCEPT !.optional = TRUE]
ZDefault(z, d) == [z EXCEPT !.default = d]

QueryLimitDefault == 5
ListLimitDefault == 20
RelationshipsLimitDefault == 10

ingestSchema == [content |-> ZString, name |-> ZString]
querySchema ==
  [query |-> ZString, limit |-> ZDefault(ZOptional(ZNumber), Num(QueryLimitDefault))]
listSchema == [limit |-> ZDefault(ZOptional(ZNumber), Num(ListLimitDefault))]
deleteSchema == [artifact_id |-> ZString]
sessionEndSchema ==
  [summary |-> ZString, working_on |-> ZOptional(ZString), context |-> ZOptional(ZRecord)]
setIdentitySchema ==
  [agent_name |-> ZOptional(ZString), identity_summary |-> ZOptional(ZString)]
relationshipsSchema ==
  [entity |-> ZString, type |-> ZOptional(ZString),
   limit |-> ZDefault(ZOptional(ZNumber), Num(RelationshipsLimitDefault))]
queryTimerangeSchema ==
  [query |-> ZString, since |-> ZOptional(ZString), until |-> ZOptional(ZString),
   limit |-> ZDefault(ZOptional(ZNumber), Num(QueryLimitDefault))]

Schema(tool) ==
  CASE tool = "memdata_ingest" -> ingestSchema
    [] tool = "memdata_query" -> querySchema
    [] tool = "memdata_list" -> listSchema
    [] tool = "memdata_delete" -> deleteSchema
    [] tool = "memdata_session_end" -> sessionEndSchema
    [] tool = "memdata_set_identity" -> setIdentitySchema
    [] tool = "memdata_relationships" -> relationshipsSchema
    [] tool = "memdata_query_timerange" -> queryTimerangeSchema
    [] OTHER -> <<>>

\* The value a schema field parses: the default for an absent argument.
Defaulted(z, x) == IF x = Undefined /\ z.default # Undefined THEN z.default ELSE x

\* The type zod finds a value to have: an infinite number is a number to
\* it, NaN is not.
ZodType(x) == IF x.t \in {"Infinity", "-Infinity"} THEN "number" ELSE x.t

Accepts_AllOptional(z, x) == x = Undefined \/ ZodType(x) = z.type

\* Whether a schema field accepts the (defaulted) value.
Accepts(z, x) ==
  IF x = Undefined THEN z.optional ELSE ZodType(x) = z.type

\* The arguments of a tools/call request are a JSON object; a parameter that
\* is not a key of it is absent.
ArgOf(raw, p) == IF p \in DOMAIN raw THEN raw[p] ELSE Undefined

\* Schema validation of the raw arguments at the dispatch boundary.
ValidArgs(tool, raw) ==
  \A p \in DOMAIN Schema(tool) :
    Accepts(Schema(tool)[p], Defaulted(Schema(tool)[p], ArgOf(raw, p)))

\* The value z.record(z.unknown()) parses a record to: its keys and values
\* but for a key "__proto__", which zod leaves out.
RecordWithout(x, key) ==
  IF "keys" \in DOMAIN x
  THEN [t |-> "object", v |-> [k \in DOMAIN x.v \ {key} |-> x.v[k]],
        keys |-> SelectSeq(x.keys, LAMBDA k : k # key)]
  ELSE [t |-> "object", v |-> [k \in DOMAIN x.v \ {key} |-> x.v[k]]]

ZodParsed(z, x) ==
  IF z.type = "object" /\ x.t = "object" /\ "__proto__" \in DOMAIN x.v
  THEN RecordWithout(x, "__proto__") ELSE x

\* The parsed arguments the handler is called with.
ParsedArgs(tool, raw) ==
  [p \in DOMAIN Schema(tool) |->
     ZodParsed(Schema(tool)[p], Defaulted(Schema(tool)[p], ArgOf(raw, p)))]

-----------------------------------------------------------------------------
(* One tool invocation, from dispatch to the returned result *)

\* The request a handler sends before its first await.
FirstRequest(tool, a, nowIso) ==
  CASE tool = "memdata_ingest" -> ingestContentCall(a.content, a.name)
    [] tool = "memdata_query" ->
         queryMemoryCall(a.query, MinLimit(a.limit, QueryLimitCap))
    [] tool = "memdata_list" -> listArtifactsCall(MinLimit(a.limit, ListLimitCap))
    [] tool = "memdata_delete" -> deleteArtifactCall(a.artifact_id)
    [] tool = "memdata_status" -> getStatusCall
    [] tool = "memdata_whoami" -> getIdentityCall
    [] tool = "memdata_session_end" ->
         endSessionCall(a.summary, a.working_on, a.context, nowIso)
    [] tool = "memdata_set_identity" ->
         updateIdentityCall(a.agent_name, a.identity_summary)
    [] tool = "memdata_relationships" -> getRelationshipsCall(a.entity, a.type, a.limit)
    [] tool = "memdata_query_timerange" ->
         queryMemoryWithDatesCall(a.query, MinLimit(a.limit, QueryLimitCap),
                                  a.since, a.until)

\* What a handler returns once the outcome o of its last request is known.
HandlerResult(tool, a, isHealthy, o) ==
  CASE tool = "memdata_ingest" -> memdata_ingest(a, ingestContent(o))
    [] tool = "memdata_query" -> memdata_query(a, queryMemory(o))
    [] tool = "memdata_list" -> memdata_list(a, listArtifacts(o))
    [] tool = "memdata_delete" -> memdata_delete(a, deleteArtifact(o))
    [] tool = "memdata_status" -> memdata_status(a, getStatus(isHealthy, o))
    [] tool = "memdata_whoami" -> memdata_whoami(a, getIdentity(o))
    [] tool = "memdata_session_end" -> memdata_session_end(a, endSession(o))
    [] tool = "memdata_set_identity" -> memdata_set_identity(a, updateIdentity(o))
    [] tool = "memdata_relationships" -> memdata_relationships(a, getRelationships(o))
    [] tool = "memdata_query_timerange" ->
         memdata_query_timerange(a, queryMemoryWithDates(o))

NoResult == [content |-> <<>>, isError |-> FALSE]

\* st: idle; waiting on the fetch of its last request; reading the body of
\* the response the fetch resolved with, whose status is head; done; or
\* rejected.
IdleCall ==
  [st |-> "idle", tool |-> "", raw |-> <<>>, args |-> <<>>, isHealthy |-> FALSE,
   reqs |-> <<>>, resps |-> <<>>, head |-> 0, result |-> NoResult]

\* Dispatch of a call whose arguments fail validation: the handler never runs.
RejectedCall(tool, raw) ==
  [IdleCall EXCEPT !.st = "rejected", !.tool = tool, !.raw = raw]

\* Dispatch of a valid call: the handler runs up to its first await.
StartedCall(tool, raw, nowIso) ==
  [IdleCall EXCEPT !.st = "waiting", !.tool = tool, !.raw = raw,
                   !.args = ParsedArgs(tool, raw),
                   !.reqs = <<FirstRequest(tool, ParsedArgs(tool, raw), nowIso)>>]

\* Whether the call goes on to a second request after this response: only
\* getStatus does, after a health answer it could read.
SendsUsage(c, r) ==
  /\ c.tool = "memdata_status"
  /\ Len(c.reqs) = 1
  /\ getStatusHealth(callAPIResult(r)).next

\* The call once the helper has met the whole of r for its pending request:
\* the handler runs on to its next fetch or to its return.
ContinuedCall(c, r) ==
  IF SendsUsage(c, r)
  THEN [c EXCEPT !.st = "waiting", !.head = 0,
                 !.isHealthy = getStatusHealth(callAPIResult(r)).isHealthy,
                 !.reqs = Append(c.reqs, usageCall),
                 !.resps = Append(c.resps, r)]
  ELSE IF c.tool = "memdata_status" /\ Len(c.reqs) = 1
  THEN [c EXCEPT !.st = "done", !.head = 0,
                 !.resps = Append(c.resps, r),
                 !.result = memdata_status(c.args, getStatusHealth(callAPIResult(r)).out)]
  ELSE [c EXCEPT !.st = "done", !.head = 0,
                 !.resps = Append(c.resps, r),
                 !.result = HandlerResult(c.tool, c.args, c.isHealthy, callAPIResult(r))]

-----------------------------------------------------------------------------
(* The process *)

\* exitCode: no exit yet, or the status given to process.exit / a normal end.
NoExit == <<>>
ExitedWith(n) == <<n>>

\* Handlers started per run (caps the counters served and sent).
MaxServed == 2

\* Invocation slots: two calls may be in flight at once.
Slots == {1, 2}
OneSlot == {1}

KeyMissing_UndefinedOnly(key) == key = Undefined

\* if (!MEMDATA_API_KEY) { ...; process.exit(1); }
KeyMissing(key) == ~Truthy(key)

\* process.env.MEMDATA_API_URL || 'https://memdata.ai'
ApiUrlOf(envUrl) == OrElse(envUrl, Str(DefaultApiUrl))

EnvKeys == {Undefined, Str(""), Str("md_k")}
EnvUrls == {Undefined, Str(""), Str("http://h")}

Init ==
  /\ MEMDATA_API_KEY \in EnvKeys
  /\ MEMDATA_API_URL \in {ApiUrlOf(u) : u \in EnvUrls}
  /\ proc = "loaded"
  /\ exitCode = NoExit
  /\ calls = [s \in Slots |-> IdleCall]
  /\ served = 0
  /\ sent = 0
  /\ nodeMajor \in NodeMajors

\* Module evaluation: the credential check, then the server is built, the
\* tools are registered and main() starts connecting the transport.
Startup ==
  /\ proc = "loaded"
  /\ IF KeyMissing(MEMDATA_API_KEY)
     THEN proc' = "exited" /\ exitCode' = ExitedWith(1)
     ELSE proc' = "connecting" /\ exitCode' = exitCode
  /\ UNCHANGED <<nodeMajor, MEMDATA_API_KEY, MEMDATA_API_URL, calls, served, sent>>

\* await server.connect(transport) resolves.
Connected ==
  /\ proc = "connecting"
  /\ proc' = "serving"
  /\ UNCHANGED <<nodeMajor, MEMDATA_API_KEY, MEMDATA_API_URL, exitCode, calls, served, sent>>

\* main().catch(...): connecting fails, process.exit(1).
ConnectFailed ==
  /\ proc = "connecting"
  /\ proc' = "exited"
  /\ exitCode' = ExitedWith(1)
  /\ UNCHANGED <<nodeMajor, MEMDATA_API_KEY, MEMDATA_API_URL, calls, served, sent>>

\* The host sends tools/call for tool c.tool with arguments c.raw.  Invalid
\* arguments are refused by the dispatcher; valid ones start the handler,
\* which runs to its first fetch.  cap: the handlers started per run.
CallToolOf(C, Clock, cap) ==
  \E s \in DOMAIN calls, c \in C, nowIso \in Clock :
    /\ proc = "serving"
    /\ calls[s].st = "idle"
    /\ served < cap
    /\ \/ /\ ~ValidArgs(c.tool, c.raw)
          /\ calls' = [calls EXCEPT ![s] = RejectedCall(c.tool, c.raw)]
          /\ UNCHANGED <<served, sent>>
       \/ /\ ValidArgs(c.tool, c.raw)
          /\ calls' = [calls EXCEPT ![s] = StartedCall(c.tool, c.raw, nowIso)]
          /\ served' = served + 1
          /\ sent' = sent + 1
    /\ UNCHANGED <<nodeMajor, MEMDATA_API_KEY, MEMDATA_API_URL, proc, exitCode>>

\* await fetch(...) resolves for the pending request of a call with a
\* response of some status, and the helper goes on to await the body.  R:
\* what the remote may make of the request.
RespondOf(R(_, _)) ==
  \E s \in DOMAIN calls :
    /\ proc = "serving"
    /\ calls[s].st = "waiting"
    /\ \E r \in R(calls[s].tool, Len(calls[s].reqs)) :
         /\ ~r.failed
         /\ calls' = [calls EXCEPT ![s] = [calls[s] EXCEPT !.st = "reading",
                                                            !.head = r.status]]
    /\ UNCHANGED <<nodeMajor, MEMDATA_API_KEY, MEMDATA_API_URL, proc, exitCode, served, sent>>

\* The await a call is pending on ends and its handler resumes, running to
\* its next fetch or to its return: await fetch(...) rejects (the network
\* fails); or await response.text() (status outside 200..299) or the
\* response.json() the helper returns (else) settles, as the body arrives or
\* reading it rejects.  EndsAwait: r is an outcome of the await c is pending on.
EndsAwait(c, r) ==
  IF c.st = "waiting" THEN r.failed ELSE ~r.failed /\ r.status = c.head

ResumeOf(R(_, _)) ==
  \E s \in DOMAIN calls :
    /\ proc = "serving"
    /\ calls[s].st \in {"waiting", "reading"}
    /\ \E r \in R(calls[s].tool, Len(calls[s].reqs)) :
         /\ EndsAwait(calls[s], r)
         /\ calls' = [calls EXCEPT ![s] = ContinuedCall(calls[s], r)]
         /\ sent' = IF SendsUsage(calls[s], r) THEN sent + 1 ELSE sent
    /\ UNCHANGED <<nodeMajor, MEMDATA_API_KEY, MEMDATA_API_URL, proc, exitCode, served>>

\* The answer of a finished or refused call has gone back to the host.
Collect ==
  \E s \in DOMAIN calls :
    /\ proc = "serving"
    /\ calls[s].st \in {"done", "rejected"}
    /\ calls' = [calls EXCEPT ![s] = IdleCall]
    /\ UNCHANGED <<nodeMajor, MEMDATA_API_KEY, MEMDATA_API_URL, proc, exitCode, served, sent>>

\* The host closes the channel while no request is pending: the process ends
\* on its own, with status 0.
Shutdown ==
  /\ proc = "serving"
  /\ \A s \in DOMAIN calls : calls[s].st \notin {"waiting", "reading"}
  /\ proc' = "exited"
  /\ exitCode' = ExitedWith(0)
  /\ UNCHANGED <<nodeMajor, MEMDATA_API_KEY, MEMDATA_API_URL, calls, served, sent>>

-----------------------------------------------------------------------------
(* Inputs of the main specification *)

Clock == {"2026-01-02T03:04:05.000Z", "2026-01-02T03:04:06.000Z"}

Call(tool, raw) == [tool |-> tool, raw |-> raw]

NoArgs == <<>>

MainCalls ==
  { Call("memdata_ingest", [content |-> Str("X"), name |-> Str("Y")]),
    Call("memdata_ingest", [name |-> Str("Y")]),
    Call("memdata_ingest", [content |-> Num(7), name |-> Str("Y")]),
    Call("memdata_query", [query |-> Str("q")]),
    Call("memdata_query", [query |-> Str("q"), limit |-> Num(25)]),
    Call("memdata_query", [limit |-> Num(3)]),
    Call("memdata_query", [query |-> Str("q"), limit |-> Infinity]),
    Call("memdata_list", NoArgs),
    Call("memdata_list", [limit |-> Num(60)]),
    Call("memdata_list", [limit |-> Str("60")]),
    Call("memdata_list", [limit |-> NegInfinity]),
    Call("memdata_delete", [artifact_id |-> Str("missing-id")]),
    Call("memdata_delete", [artifact_id |-> Null]),
    Call("memdata_status", NoArgs),
    Call("memdata_whoami", NoArgs),
    Call("memdata_session_end", [summary |-> Str("did things")]),
    Call("memdata_session_end", [summary |-> Str("")]),
    Call("memdata_session_end",
         [summary |-> Str("did things"), working_on |-> Str("w"),
          context |-> Obj(("__proto__" :> Num(5)) @@ [k |-> Str("v")])]),
    Call("memdata_session_end", [working_on |-> Str("w")]),
    Call("memdata_set_identity", NoArgs),
    Call("memdata_set_identity", [agent_name |-> Str("Bot")]),
    Call("memdata_set_identity", [agent_name |-> Bool(TRUE)]),
    Call("memdata_relationships", [entity |-> Str("Acme")]),
    Call("memdata_relationships", [type |-> Str("person")]),
    Call("memdata_query_timerange", [query |-> Str("q")]),
    Call("memdata_query_timerange",
         [query |-> Str("q"), since |-> Str("2026-01-01"), limit |-> Num(21)]),
    Call("memdata_query_timerange", [query |-> Str("q"), until |-> Num(2026)]) }

\* The raw body of a 2xx answer is read as JSON only; text is left empty.
Json(status, json) == Response(status, "", json)

FailureResponses ==
  { NetworkError,
    FetchRejected("getaddrinfo ENOTFOUND h"),
    Terminated(200),
    Terminated(500),
    Response(401, "Unauthorized", NotJson),
    Response(500, "boom", NotJson),
    Response(200, "<html>", NotJson),
    Response(200, "not json", NotJson),
    Response(204, "", NotJson),
    Json(200, Null),
    Json(200, Obj([success |-> Bool(FALSE), error |-> Str("not found")])),
    Json(200, Obj([success |-> Bool(FALSE), error |-> Str("")])),
    Json(201, Obj([success |-> Bool(FALSE)])) }

Ok(f) == Json(200, Obj(f))

Hit(text, source, score) ==
  Obj([chunk_text |-> Str(text), source_name |-> Str(source),
       similarity_score |-> Num(score), created_at |-> Str("2026-01-05T10:00:00Z")])

Insight(content, confidence) ==
  Obj([type |-> Str("decision"), content |-> Str(content),
       confidence |-> Num(confidence), evidence |-> Str("e"), chunk_id |-> Str("c")])

Activity(source) == Obj([source |-> Str(source), date |-> Str("2026-01-05")])

SuccessResponses(tool, step) ==
  CASE tool = "memdata_ingest" ->
         { Ok([success |-> Bool(TRUE), artifact_id |-> Str("abc"), chunk_count |-> Num(3)]),
           Ok([success |-> Bool(TRUE), artifact_id |-> Str("f00d"), chunk_count |-> Num(12)]),
           Ok([success |-> Bool(TRUE)]) }
    [] tool = "memdata_query" ->
         { Ok([success |-> Bool(TRUE),
               results |-> Arr(<<Hit("t1", "s1", 7512), Hit("t2", "s2", 3496)>>),
               narrative |-> Obj([decisions |-> Arr(<<Insight("use pg", 900)>>),
                                  gaps |-> Arr(<<>>)]),
               narrative_count |-> Num(1)]),
           Ok([success |-> Bool(TRUE), results |-> Arr(<<>>)]) }
    [] tool = "memdata_list" ->
         { Ok([success |-> Bool(TRUE),
               artifacts |-> Arr(<<Obj([id |-> Str("a1"), source_name |-> Str("n1"),
                                        type |-> Str("text"), chunk_count |-> Num(2),
                                        created_at |-> Str("2026-01-05T10:00:00Z")])>>)]),
           Ok([success |-> Bool(TRUE), artifacts |-> Arr(<<Obj([id |-> Str("a1")])>>)]) }
    [] tool = "memdata_delete" ->
         { Ok([success |-> Bool(TRUE), deleted_chunks |-> Num(4)]),
           Ok([success |-> Bool(TRUE), deleted_chunks |-> Obj([toString |-> Num(1)])]) }
    [] tool = "memdata_status" ->
         IF step = 1
         THEN { Ok([status |-> Str("ok")]), Ok([status |-> Str("degraded")]) }
         ELSE { Ok([success |-> Bool(TRUE),
                    usage |-> Obj([storage_used_mb |-> Num(25),
                                   storage_limit_mb |-> Num(100)])]),
                Ok([success |-> Bool(TRUE)]) }
    [] tool = "memdata_whoami" ->
         { Ok([success |-> Bool(TRUE),
               identity |-> Obj([agent_name |-> Str("Bot"), identity_summary |-> Null,
                                 session_count |-> Num(2)]),
               last_session |-> Obj([summary |-> Str("did things")]),
               working_on |-> Null,
               memory_stats |-> Obj([total_memories |-> Num(3),
                                     oldest_memory |-> Str("2026-01-01"),
                                     newest_memory |-> Null]),
               recent_activity |->
                 Arr(<<Activity("A"), Activity("B"), Activity("A"), Activity("C")>>)]),
           Ok([success |-> Bool(TRUE)]) }
    [] tool = "memdata_session_end" ->
         { Ok([success |-> Bool(TRUE), message |-> Str("saved")]) }
    [] tool = "memdata_set_identity" ->
         { Ok([success |-> Bool(TRUE)]) }
    [] tool = "memdata_relationships" ->
         { Ok([success |-> Bool(TRUE), entity |-> Str("Acme"), entity_type |-> Str("company"),
               results |-> Arr(<<Obj([name |-> Str("John"), type |-> Str("person"),
                                      co_occurrence_count |-> Num(3)])>>)]),
           Ok([success |-> Bool(TRUE)]) }
    [] tool = "memdata_query_timerange" ->
         { Ok([success |-> Bool(TRUE), results |-> Arr(<<Hit("t1", "s1", 5000)>>)]),
           Ok([success |-> Bool(TRUE), results |-> Arr(<<>>)]) }

MainResponses(tool, step) == FailureResponses \cup SuccessResponses(tool, step)

CallTool == CallToolOf(MainCalls, Clock, MaxServed)
Respond == RespondOf(MainResponses)
Resume == ResumeOf(MainResponses)

Next == Startup \/ Connected \/ ConnectFailed \/ CallTool \/ Respond \/ Resume \/ Collect \/ Shutdown

Spec == Init /\ [][Next]_vars

-----------------------------------------------------------------------------
(* Specifications of single operations: the process is serving (the state
   Startup and Connected lead to) and handles one call, with the inputs of
   the operation under study drawn from a range. *)

InitServing ==
  /\ MEMDATA_API_KEY = Str("md_k")
  /\ MEMDATA_API_URL = ApiUrlOf(Undefined)
  /\ proc = "serving"
  /\ exitCode = NoExit
  /\ calls = [s \in OneSlot |-> IdleCall]
  /\ served = 0
  /\ sent = 0
  /\ nodeMajor = 22

OneInstant == {"2026-01-02T03:04:05.000Z"}

Unauthorized == Response(401, "Unauthorized", NotJson)

(* Limits: memdata_query, memdata_query_timerange and memdata_list with every
   requested limit from -LimitBelow to MaxLimit, and without one. *)
LimitBelow == 2
MaxLimit == 52
LimitValues == (0 - LimitBelow)..MaxLimit

LimitCalls ==
  { Call("memdata_query", [query |-> Str("q")]),
    Call("memdata_query_timerange", [query |-> Str("q")]),
    Call("memdata_list", NoArgs) }
  \cup { Call("memdata_query", [query |-> Str("q"), limit |-> Num(n)]) : n \in LimitValues }
  \cup { Call("memdata_query_timerange", [query |-> Str("q"), limit |-> Num(n)]) :
           n \in LimitValues }
  \cup { Call("memdata_list", [limit |-> Num(n)]) : n \in LimitValues }

LimitResponses(tool, step) ==
  { Unauthorized,
    IF tool = "memdata_list"
    THEN Ok([success |-> Bool(TRUE), artifacts |-> Arr(<<>>)])
    ELSE Ok([success |-> Bool(TRUE), results |-> Arr(<<>>)]) }

CallToolLimits == CallToolOf(LimitCalls, OneInstant, 1)
RespondLimits == RespondOf(LimitResponses)
ResumeLimits == ResumeOf(LimitResponses)
NextLimits == CallToolLimits \/ RespondLimits \/ ResumeLimits \/ Collect
SpecLimits == InitServing /\ [][NextLimits]_vars

(* Scores: memdata_query and memdata_query_timerange answered with one hit of
   every similarity score from 0 to MaxScore (1.0), in units of 1/10000.  A
   value ending in 5 is a rounding tie of Math.round(score * 1000); the double
   product decides which way it goes (0.5005 * 1000 rounds to 500). *)
MaxScore == 10000
ScoreValues == 0..MaxScore

ScoreCalls ==
  { Call("memdata_query", [query |-> Str("q")]),
    Call("memdata_query_timerange", [query |-> Str("q")]) }

ScoreResponses(tool, step) ==
  { Ok([success |-> Bool(TRUE), results |-> Arr(<<Hit("t", "s", x)>>)]) : x \in ScoreValues }

CallToolScores == CallToolOf(ScoreCalls, OneInstant, 1)
RespondScores == RespondOf(ScoreResponses)
ResumeScores == ResumeOf(ScoreResponses)
NextScores == CallToolScores \/ RespondScores \/ ResumeScores \/ Collect
SpecScores == InitServing /\ [][NextScores]_vars

(* Recent activity: memdata_whoami answered with every pattern of repeated
   sources among at most MaxRecent entries over NumSources sources.  The
   sources are numbered in order of first appearance: a list that differs
   only in the names it uses is rendered alike, up to the names. *)
MaxRecent == 7
NumSources == 6
SourceName(k) == "src" \o ToString(k)

MaxOf(q) == IF Len(q) = 0 THEN 0 ELSE CHOOSE m \in {q[i] : i \in 1..Len(q)} :
                                        \A i \in 1..Len(q) : q[i] <= m

\* The patterns of n entries: each entry repeats an earlier source or is the
\* next new one.
RECURSIVE RecentPatterns(_)
RecentPatterns(n) ==
  IF n = 0 THEN {<<>>}
  ELSE UNION { {Append(q, k) : k \in {j \in 1..NumSources : j <= 1 + MaxOf(q)}} :
                 q \in RecentPatterns(n - 1) }

RecentLists ==
  UNION { {[i \in 1..Len(q) |-> SourceName(q[i])] : q \in RecentPatterns(n)} :
            n \in 0..MaxRecent }

WhoAmICalls == { Call("memdata_whoami", NoArgs) }

RecentResponses(tool, step) ==
  { Ok([success |-> Bool(TRUE),
        identity |-> Obj([agent_name |-> Str("Bot"), identity_summary |-> Str("helper"),
                          session_count |-> Num(1)]),
        memory_stats |-> Obj([total_memories |-> Num(Len(q)),
                              oldest_memory |-> Null, newest_memory |-> Null]),
        recent_activity |-> Arr([i \in 1..Len(q) |-> Activity(q[i])])]) :
      q \in RecentLists }

CallToolRecent == CallToolOf(WhoAmICalls, OneInstant, 1)
RespondRecent == RespondOf(RecentResponses)
ResumeRecent == ResumeOf(RecentResponses)
NextRecent == CallToolRecent \/ RespondRecent \/ ResumeRecent \/ Collect
SpecRecent == InitServing /\ [][NextRecent]_vars

(* Storage: memdata_status answered with every usage of 0..MaxUsedMb (and 23
   and 25) MB used of 0..MaxLimitMb (and 40 and 100) MB, and with either
   figure missing.  23 of 40 MB is an exact half, 57.5, that the double
   arithmetic of the source takes down to 57. *)
MaxUsedMb == 12
MaxLimitMb == 12
UsedValues == 0..MaxUsedMb \cup {23, 25}
LimitMbValues == 0..MaxLimitMb \cup {40, 100}

StatusCalls == { Call("memdata_status", NoArgs) }

UsageObjects ==
  { Obj([storage_used_mb |-> Num(u), storage_limit_mb |-> Num(l)]) :
      u \in UsedValues, l \in LimitMbValues }
  \cup { Obj([storage_used_mb |-> Num(u)]) : u \in UsedValues }
  \cup { Obj([storage_limit_mb |-> Num(l)]) : l \in LimitMbValues }

StorageResponses(tool, step) ==
  IF step = 1
  THEN { Unauthorized, Ok([status |-> Str("ok")]) }
  ELSE { Ok([success |-> Bool(TRUE), usage |-> u]) : u \in UsageObjects }
       \cup { Ok([success |-> Bool(TRUE)]), Unauthorized }

CallToolStorage == CallToolOf(StatusCalls, OneInstant, 1)
RespondStorage == RespondOf(StorageResponses)
ResumeStorage == ResumeOf(StorageResponses)
NextStorage == CallToolStorage \/ RespondStorage \/ ResumeStorage \/ Collect
SpecStorage == InitServing /\ [][NextStorage]_vars

(* Validation: every tool called with every combination of its declared
   parameters absent or given as a string, a number, a boolean, null or an
   object; MaxCalls handlers may start. *)
MaxCalls == 2

ArgValues == {Str("v"), Num(3), Bool(TRUE), Null, EmptyObj}

RawArgs(tool) == UNION { [D -> ArgValues] : D \in SUBSET (DOMAIN Schema(tool)) }

ValidateCalls == UNION { {Call(tool, raw) : raw \in RawArgs(tool)} : tool \in Tools }

ValidateResponses(tool, step) == {Unauthorized} \cup SuccessResponses(tool, step)

CallToolValidate == CallToolOf(ValidateCalls, OneInstant, MaxCalls)
RespondValidate == RespondOf(ValidateResponses)
ResumeValidate == ResumeOf(ValidateResponses)
NextValidate == CallToolValidate \/ RespondValidate \/ ResumeValidate \/ Collect \/ Shutdown
SpecValidate == InitServing /\ [][NextValidate]_vars

(* Identity: memdata_set_identity with each field absent, empty or one of a
   few texts. *)
IdentityTexts == {"", "Bot", "A b", "null"}

IdentityCalls ==
  UNION { { Call("memdata_set_identity", raw) : raw \in [D -> {Str(x) : x \in IdentityTexts}] } :
            D \in SUBSET {"agent_name", "identity_summary"} }

IdentityResponses(tool, step) ==
  { NetworkError, Unauthorized,
    Ok([success |-> Bool(FALSE), error |-> Str("no")]),
    Ok([success |-> Bool(TRUE), message |-> Str("Identity updated")]) }

CallToolIdentity == CallToolOf(IdentityCalls, OneInstant, 1)
RespondIdentity == RespondOf(IdentityResponses)
ResumeIdentity == ResumeOf(IdentityResponses)
NextIdentity == CallToolIdentity \/ RespondIdentity \/ ResumeIdentity \/ Collect
SpecIdentity == InitServing /\ [][NextIdentity]_vars

(* Dates: memdata_query_timerange with since and until absent, empty, a date,
   a timestamp or a text that is no date. *)
DateTexts == {"", "2026-01-01", "2026-01-31T23:59:59Z", "not a date"}

DateCalls ==
  UNION { { Call("memdata_query_timerange", [query |-> Str("q")] @@ raw) :
              raw \in [D -> {Str(x) : x \in DateTexts}] } :
            D \in SUBSET {"since", "until"} }

DateResponses(tool, step) ==
  { NetworkError, Unauthorized,
    Ok([success |-> Bool(TRUE), results |-> Arr(<<>>)]),
    Ok([success |-> Bool(TRUE), results |-> Arr(<<Hit("t", "s", 5000)>>)]) }

CallToolDates == CallToolOf(DateCalls, OneInstant, 1)
RespondDates == RespondOf(DateResponses)
ResumeDates == ResumeOf(DateResponses)
NextDates == CallToolDates \/ RespondDates \/ ResumeDates \/ Collect
SpecDates == InitServing /\ [][NextDates]_vars

(* Narrative: memdata_query and memdata_query_timerange answered with no hit
   or one, and with a narrative in which each of the five groups is absent,
   empty or holds up to MaxInsights insights (the first of low confidence),
   with narrative_count absent, 0 or positive; or with no narrative. *)
MaxInsights == 2

InsightName(g, i) == SubSeq(g, 1, 3) \o ToString(i)

\* The first insight of a group has confidence 0.1, the others 0.9.
InsightsOf(g, n) ==
  [i \in 1..n |-> Insight(InsightName(g, i), IF i = 1 THEN 100 ELSE 900)]

GroupNames == {NarrativeGroups[k] : k \in 1..Len(NarrativeGroups)}

Narratives ==
  UNION { [D -> {Arr(InsightsOf("insight", n)) : n \in 0..MaxInsights}] :
            D \in SUBSET GroupNames }

\* Each group holds its own insights: the group's name is in their content.
NamedNarrative(f) ==
  Obj([g \in DOMAIN f |-> Arr(InsightsOf(g, Len(f[g].v)))])

NarrativePayloads ==
  { [success |-> Bool(TRUE)] @@ hits @@ narrative @@ count :
      hits \in { [results |-> Arr(<<>>)], [results |-> Arr(<<Hit("t", "s", 7000)>>)] },
      narrative \in { <<>> } \cup { [narrative |-> NamedNarrative(f)] : f \in Narratives },
      count \in { <<>>, [narrative_count |-> Num(0)], [narrative_count |-> Num(3)] } }

NarrativeResponses(tool, step) == { Ok(f) : f \in NarrativePayloads }

CallToolNarrative == CallToolOf(ScoreCalls, OneInstant, 1)
RespondNarrative == RespondOf(NarrativeResponses)
ResumeNarrative == ResumeOf(NarrativeResponses)
NextNarrative == CallToolNarrative \/ RespondNarrative \/ ResumeNarrative \/ Collect
SpecNarrative == InitServing /\ [][NextNarrative]_vars

(* Listing: memdata_list with every requested limit from 0 to MaxListLimit,
   and without one, answered with 0 to MaxArtifacts artifacts. *)
MaxListLimit == 52
MaxArtifacts == 51

ListCalls ==
  { Call("memdata_list", NoArgs) }
  \cup { Call("memdata_list", [limit |-> Num(n)]) : n \in 0..MaxListLimit }

Artifact(i) ==
  Obj([id |-> Str("a" \o ToString(i)), source_name |-> Str("n" \o ToString(i)),
       type |-> Str("text"), chunk_count |-> Num(i),
       created_at |-> Str("2026-01-05T10:00:00Z")])

ListResponses(tool, step) ==
  { Unauthorized }
  \cup { Ok([success |-> Bool(TRUE), artifacts |-> Arr([i \in 1..n |-> Artifact(i)])]) :
           n \in 0..MaxArtifacts }

CallToolList == CallToolOf(ListCalls, OneInstant, 1)
RespondList == RespondOf(ListResponses)
ResumeList == ResumeOf(ListResponses)
NextList == CallToolList \/ RespondList \/ ResumeList \/ Collect
SpecList == InitServing /\ [][NextList]_vars

-----------------------------------------------------------------------------
(* Properties *)

LastResponse(c) == c.resps[Len(c.resps)]
ResultText(c) == c.result.content[1].text
OneTextBlock(c) == Len(c.result.content) = 1 /\ c.result.content[1].type = "text"

\* A call returns in this step.
Returns(s) == calls[s].st \in {"waiting", "reading"} /\ calls'[s].st = "done"

\* An answer with a status outside 200..299.
NonOk(r) == ~r.failed /\ (r.status < 200 \/ r.status > 299)

\* An answer with a status outside 200..299 whose body text arrived.
NonOkWithBody(r) == NonOk(r) /\ ~r.broken

\* A 2xx answer whose JSON payload carries success = false.
FlaggedFailure(r) ==
  /\ ~r.failed /\ r.status >= 200 /\ r.status <= 299
  /\ r.json.t = "object" /\ "success" \in DOMAIN r.json.v
  /\ r.json.v["success"] = Bool(FALSE)

\* C1: for each of the ten tools, a call whose request is answered with a
\* non-2xx status S and body B returns one text block that contains S and B,
\* with the error flag set, and the step that returns it leaves the process
\* serving.
C1_NonOkIsReported ==
  [][\A s \in DOMAIN calls :
       (Returns(s) /\ NonOkWithBody(LastResponse(calls'[s]))) =>
         /\ OneTextBlock(calls'[s])
         /\ calls'[s].result.isError
         /\ Contains(ResultText(calls'[s]), ToString(LastResponse(calls'[s]).status))
         /\ Contains(ResultText(calls'[s]), LastResponse(calls'[s]).text)
         /\ proc' = "serving" /\ exitCode' = NoExit]_vars

C1_Witness ==
  \E s \in DOMAIN calls :
    /\ calls[s].st = "done"
    /\ calls[s].tool = "memdata_status"
    /\ Len(calls[s].resps) = 2
    /\ LastResponse(calls[s]).status = 401
    /\ calls[s].result.isError
    /\ proc = "serving"

\* C2 (as claimed): a call that got a 2xx answer whose payload carries
\* success = false returns a failure text with the error flag set.
C2_FlaggedFailureIsReported ==
  \A s \in DOMAIN calls :
    (calls[s].st = "done" /\ \E i \in 1..Len(calls[s].resps) : FlaggedFailure(calls[s].resps[i]))
      => (OneTextBlock(calls[s]) /\ calls[s].result.isError)

\* C3: a delete call answered {success: false, error: E} returns exactly
\* "Failed to delete: E" with the error flag set; without an error text the
\* message part is "Unknown error".
C3_DeleteFailureText ==
  \A s \in DOMAIN calls :
    (calls[s].st = "done" /\ calls[s].tool = "memdata_delete"
       /\ FlaggedFailure(LastResponse(calls[s]))) =>
      LET payload == LastResponse(calls[s]).json.v
          hasText == "error" \in DOMAIN payload /\ payload["error"].t = "string"
                       /\ payload["error"].v # ""
          E == IF hasText THEN payload["error"].v ELSE "Unknown error"
      IN /\ OneTextBlock(calls[s])
         /\ ResultText(calls[s]) = "Failed to delete: " \o E
         /\ calls[s].result.isError

C3_Witness ==
  \E s \in DOMAIN calls :
    /\ calls[s].st = "done"
    /\ calls[s].tool = "memdata_delete"
    /\ calls[s].raw = [artifact_id |-> Str("missing-id")]
    /\ FlaggedFailure(LastResponse(calls[s]))
    /\ ResultText(calls[s]) = "Failed to delete: not found"
    /\ calls[s].result.isError

\* A 2xx answer to an ingest request with a success payload that names the
\* stored artifact and its chunk count.
IngestSuccess(r) ==
  /\ ~r.failed /\ r.status >= 200 /\ r.status <= 299
  /\ r.json.t = "object"
  /\ {"success", "artifact_id", "chunk_count"} \subseteq DOMAIN r.json.v
  /\ r.json.v["success"] = Bool(TRUE)

\* C8: an ingest call with content C and name N answered with a success
\* payload {artifact_id: A, chunk_count: K} returns one text block that
\* contains A and K, without the error flag, having sent exactly one POST
\* whose body is {content: C, sourceName: N}.
C8_IngestRoundTrip ==
  \A s \in DOMAIN calls :
    (calls[s].st = "done" /\ calls[s].tool = "memdata_ingest"
       /\ IngestSuccess(LastResponse(calls[s]))) =>
      LET payload == LastResponse(calls[s]).json.v IN
      /\ OneTextBlock(calls[s])
      /\ ~calls[s].result.isError
      /\ Contains(ResultText(calls[s]), payload["artifact_id"].v)
      /\ Contains(ResultText(calls[s]), ToString(payload["chunk_count"].v))
      /\ Len(calls[s].reqs) = 1
      /\ calls[s].reqs[1].method = "POST"
      /\ calls[s].reqs[1].url = MEMDATA_API_URL.v \o "/api/memdata/ingest"
      /\ calls[s].reqs[1].body.t = "object"
      /\ calls[s].reqs[1].body.v =
           [content |-> calls[s].raw["content"], sourceName |-> calls[s].raw["name"]]

C8_Witness ==
  \E s \in DOMAIN calls :
    /\ calls[s].st = "done"
    /\ calls[s].tool = "memdata_ingest"
    /\ calls[s].raw = [content |-> Str("X"), name |-> Str("Y")]
    /\ IngestSuccess(LastResponse(calls[s]))
    /\ LastResponse(calls[s]).json.v["artifact_id"] = Str("abc")
    /\ LastResponse(calls[s]).json.v["chunk_count"] = Num(3)
    /\ Contains(ResultText(calls[s]), "abc")
    /\ Contains(ResultText(calls[s]), "3")
    /\ ~calls[s].result.isError

\* C9: with the API key absent or empty, the process can only exit with
\* status 1 from its start-up check: it never connects or serves, no tool
\* call is dispatched or answered, and no HTTP request is sent.
C9_MissingKeyIsFatal ==
  (MEMDATA_API_KEY = Undefined \/ MEMDATA_API_KEY = Str("")) =>
    /\ proc \in {"loaded", "exited"}
    /\ proc = "exited" => exitCode = ExitedWith(1)
    /\ proc = "loaded" => exitCode = NoExit
    /\ served = 0
    /\ sent = 0
    /\ \A s \in DOMAIN calls : calls[s] = IdleCall

C9_Witness ==
  /\ MEMDATA_API_KEY = Str("")
  /\ proc = "exited"
  /\ exitCode = ExitedWith(1)
  /\ sent = 0

\* The limit a query or time-range request carries in its body.
BodyLimit(c) == c.reqs[1].body.v["limit"]

\* C4: the limit sent upstream is the requested limit clamped to the cap of
\* the tool (20 for memdata_query and memdata_query_timerange, 50 for
\* memdata_list): the cap above it, the requested limit at or below it, the
\* default (5, or 20 for memdata_list) without one; clamping the limit that
\* was sent gives it back.
C4_LimitIsClamped ==
  \A s \in DOMAIN calls :
    (calls[s].st \in {"waiting", "reading", "done"}
       /\ calls[s].tool \in {"memdata_query", "memdata_query_timerange", "memdata_list"}) =>
      LET isList == calls[s].tool = "memdata_list"
          cap == IF isList THEN 50 ELSE 20
          default == IF isList THEN 20 ELSE 5
          asked == calls[s].raw
          expected == IF "limit" \notin DOMAIN asked THEN default
                      ELSE IF asked["limit"].v > cap THEN cap
                      ELSE asked["limit"].v
      IN /\ Len(calls[s].reqs) = 1
         /\ isList =>
              calls[s].reqs[1].url =
                MEMDATA_API_URL.v \o "/api/memdata/artifacts?limit=" \o ToString(expected)
         /\ ~isList => BodyLimit(calls[s]) = Num(expected)
         /\ MathMin(expected, cap) = expected
         /\ ~isList => MathMin(BodyLimit(calls[s]).v, cap) = BodyLimit(calls[s]).v

C4_Witness ==
  \E s \in DOMAIN calls :
    /\ calls[s].st = "waiting"
    /\ calls[s].tool = "memdata_list"
    /\ calls[s].raw = [limit |-> Num(51)]
    /\ calls[s].reqs[1].url = "https://memdata.ai/api/memdata/artifacts?limit=50"
    /\ sent = 1

\* The one hit of the answer a query call got, as the API function returns it.
HitData(c) ==
  IF c.tool = "memdata_query"
  THEN queryMemory(callAPIResult(LastResponse(c))).value.results[1]
  ELSE queryMemoryWithDates(callAPIResult(LastResponse(c))).value.results[1]

QualityTokens == {"(green)", "(yellow)", "(orange)", "(red)"}

\* C5: the match quality rendered for a result is decided by its score alone
\* (the similarity score as the result holds it, rounded to 3 decimals):
\* strong from 0.70, good from 0.50 to below 0.70, partial from 0.35 to below
\* 0.50, weak below 0.35; exactly one quality is rendered, and the result
\* data has no field for it.
C5_MatchQualityTiers ==
  \A s \in DOMAIN calls :
    (calls[s].st = "done" /\ calls[s].tool \in {"memdata_query", "memdata_query_timerange"}) =>
      LET hit == HitData(calls[s])
          raw == LastResponse(calls[s]).json.v["results"].v[1].v["similarity_score"].v
          score == hit.score.v
          tier == IF score >= 700 THEN "(green)"
                  ELSE IF score >= 500 /\ score < 700 THEN "(yellow)"
                  ELSE IF score >= 350 /\ score < 500 THEN "(orange)"
                  ELSE "(red)"
      IN /\ ~calls[s].result.isError
         /\ 10 * score - 5 <= raw /\ raw <= 10 * score + 5
         /\ \A t \in QualityTokens :
              Contains(ResultText(calls[s]), "[1] " \o t \o " ") <=> t = tier
         /\ DOMAIN hit \subseteq {"text", "source", "score", "date"}

C5_Witness ==
  \E s \in DOMAIN calls :
    /\ calls[s].st = "done"
    /\ calls[s].tool = "memdata_query"
    /\ HitData(calls[s]).score = Num(700)
    /\ Contains(ResultText(calls[s]), "[1] (green) 70.0% | s\nt")

EndsWith(text, tail) ==
  Len(text) >= Len(tail) /\ SubSeq(text, Len(text) - Len(tail) + 1, Len(text)) = tail

\* The sources of the recent-activity list of an answer, in the order given.
RemoteSources(r) ==
  [i \in 1..Len(r.json.v["recent_activity"].v) |->
     r.json.v["recent_activity"].v[i].v["source"].v]

\* The positions at which a source occurs for the first time.
FirstOccurrences(src) == {i \in 1..Len(src) : \A j \in 1..(i - 1) : src[j] # src[i]}

\* The k-th smallest element of a set of numbers.
KthOf(S, k) == CHOOSE i \in S : Cardinality({j \in S : j <= i}) = k

\* The lines of the first five distinct sources, in order of first occurrence.
RECURSIVE FirstDistinctLines(_, _, _)
FirstDistinctLines(src, k, shown) ==
  IF k > shown THEN ""
  ELSE "- " \o src[KthOf(FirstOccurrences(src), k)] \o " (2026-01-05)\n"
         \o FirstDistinctLines(src, k + 1, shown)

\* C6: the recent activity memdata_whoami renders is the first five distinct
\* sources of the remote list, in order of first occurrence, one line each:
\* no source is rendered twice, and none of the five is lost to duplicates
\* among the first entries of the list.
C6_RecentIsDedupedThenCut ==
  \A s \in DOMAIN calls :
    (calls[s].st = "done" /\ calls[s].tool = "memdata_whoami") =>
      LET src == RemoteSources(LastResponse(calls[s]))
          distinct == Cardinality(FirstOccurrences(src))
          shown == IF distinct > 5 THEN 5 ELSE distinct
      IN /\ ~calls[s].result.isError
         /\ EndsWith(ResultText(calls[s]),
                     "- Newest: None\n\n"
                       \o (IF Len(src) = 0 THEN ""
                           ELSE "## Recent Activity\n" \o FirstDistinctLines(src, 1, shown)))

C6_Witness ==
  \E s \in DOMAIN calls :
    /\ calls[s].st = "done"
    /\ calls[s].tool = "memdata_whoami"
    /\ RemoteSources(LastResponse(calls[s]))
         = <<"src1", "src1", "src2", "src3", "src4", "src5", "src6">>
    /\ EndsWith(ResultText(calls[s]),
                "## Recent Activity\n- src1 (2026-01-05)\n- src2 (2026-01-05)\n"
                  \o "- src3 (2026-01-05)\n- src4 (2026-01-05)\n- src5 (2026-01-05)\n")

\* A figure of the usage an answer reports; 0 when the answer has none.
UsageFigure(r, k) ==
  IF "usage" \in DOMAIN r.json.v /\ k \in DOMAIN r.json.v["usage"].v
  THEN r.json.v["usage"].v[k].v
  ELSE 0

\* A status call whose two requests were answered with a 2xx status.
StatusAnswered(c) ==
  /\ c.st = "done" /\ c.tool = "memdata_status"
  /\ Len(c.resps) = 2 /\ ~NonOk(LastResponse(c))

\* C7: the storage percent memdata_status reports is the used MB over the
\* limit MB times 100, rounded to a nearest integer, when the limit is above
\* 0, and 0 when the limit is 0 or missing (0 of 0 gives 0, 25 of 100 gives
\* 25); the call returns a status text for every pair of figures.
C7_StoragePercent ==
  \A s \in DOMAIN calls :
    StatusAnswered(calls[s]) =>
      LET used == UsageFigure(LastResponse(calls[s]), "storage_used_mb")
          limit == UsageFigure(LastResponse(calls[s]), "storage_limit_mb")
          nearest == IF limit = 0 THEN {0}
                     ELSE {p \in 0..(100 * used + 1) :
                             /\ 2 * p * limit - limit <= 200 * used
                             /\ 200 * used <= 2 * p * limit + limit}
      IN /\ ~calls[s].result.isError
         /\ \E percent \in nearest :
              EndsWith(ResultText(calls[s]),
                       "- Storage: " \o ToString(used) \o " MB / " \o ToString(limit)
                         \o " MB (" \o ToString(percent) \o "% used)")
         /\ (used = 25 /\ limit = 100) =>
              EndsWith(ResultText(calls[s]), "- Storage: 25 MB / 100 MB (25% used)")

C7_Witness ==
  \E s \in DOMAIN calls :
    /\ StatusAnswered(calls[s])
    /\ UsageFigure(LastResponse(calls[s]), "storage_used_mb") = 7
    /\ UsageFigure(LastResponse(calls[s]), "storage_limit_mb") = 0
    /\ EndsWith(ResultText(calls[s]), "- Storage: 7 MB / 0 MB (0% used)")

\* The parameters each tool requires; all of them are strings.
RequiredStrings(tool) ==
  CASE tool = "memdata_ingest" -> {"content", "name"}
    [] tool \in {"memdata_query", "memdata_query_timerange"} -> {"query"}
    [] tool = "memdata_delete" -> {"artifact_id"}
    [] tool = "memdata_session_end" -> {"summary"}
    [] tool = "memdata_relationships" -> {"entity"}
    [] OTHER -> {}

\* A required parameter is missing from the arguments or is not a string.
MalformedInput(tool, raw) ==
  \E p \in RequiredStrings(tool) : p \notin DOMAIN raw \/ raw[p].t # "string"

\* C10: a call in which a required parameter is missing or has the wrong
\* type is refused at dispatch: its handler does not run, no HTTP request is
\* sent for it, and the process stays serving, free to take later calls.
C10_MalformedInputIsRejected ==
  [][\A s \in DOMAIN calls :
       (calls[s].st = "idle" /\ calls'[s].st # "idle"
          /\ MalformedInput(calls'[s].tool, calls'[s].raw)) =>
         /\ calls'[s].st = "rejected"
         /\ calls'[s].reqs = <<>>
         /\ sent' = sent /\ served' = served
         /\ proc' = "serving" /\ exitCode' = NoExit]_vars

C10_Witness ==
  \E s \in DOMAIN calls :
    /\ calls[s].st = "rejected"
    /\ calls[s].tool = "memdata_query_timerange"
    /\ calls[s].raw = [query |-> Num(3), limit |-> Num(3)]
    /\ sent = 1 /\ served = 1
    /\ proc = "serving"

\* The method of the requests each tool sends.
TabulatedMethod(tool) ==
  CASE tool \in {"memdata_ingest", "memdata_query", "memdata_query_timerange",
                 "memdata_set_identity", "memdata_session_end",
                 "memdata_relationships"} -> "POST"
    [] tool \in {"memdata_list", "memdata_whoami", "memdata_status"} -> "GET"
    [] tool = "memdata_delete" -> "DELETE"

\* A health answer getStatus can read: 2xx with a JSON body that is not null.
ReadableAnswer(r) ==
  /\ ~r.failed /\ r.status >= 200 /\ r.status <= 299
  /\ r.json # NotJson /\ r.json # Null

\* The bearer header, and a JSON content type exactly with a body.
WellFormedRequest(q) ==
  /\ q.headers["Authorization"] = "Bearer " \o MEMDATA_API_KEY.v
  /\ ("ContentType" \in DOMAIN q.headers) <=> (q.body # Undefined)
  /\ "ContentType" \in DOMAIN q.headers => q.headers["ContentType"] = "application/json"
  /\ (q.body # Undefined) <=> (q.method = "POST")

\* The requests of a call are those tabulated for its tool.
TabulatedRequests(c) ==
  /\ Len(c.reqs) >= 1
  /\ \A i \in 1..Len(c.reqs) :
       c.reqs[i].method = TabulatedMethod(c.tool) /\ WellFormedRequest(c.reqs[i])
  /\ c.tool # "memdata_status" => Len(c.reqs) = 1
  /\ c.tool = "memdata_status" =>
       /\ c.reqs[1].url = MEMDATA_API_URL.v \o "/api/memdata/health"
       /\ Len(c.reqs) <= 2
       /\ Len(c.reqs) = 2 =>
            /\ c.reqs[2].url = MEMDATA_API_URL.v \o "/api/memdata/usage"
            /\ ReadableAnswer(c.resps[1])
       /\ (Len(c.resps) >= 1 /\ ReadableAnswer(c.resps[1])) => Len(c.reqs) = 2
  /\ c.st \in {"waiting", "reading"} => Len(c.resps) = Len(c.reqs) - 1
  /\ c.st = "done" => Len(c.resps) = Len(c.reqs)

\* The requests the calls hold grow by n in this step.
RequestsGrowBy(n) ==
  \/ /\ n = 0
     /\ \A s \in DOMAIN calls : Len(calls'[s].reqs) <= Len(calls[s].reqs)
  \/ /\ n = 1
     /\ \E s \in DOMAIN calls :
          /\ Len(calls'[s].reqs) = Len(calls[s].reqs) + 1
          /\ \A t \in DOMAIN calls \ {s} : calls'[t] = calls[t]

\* C11 (amended): a validated call sends the requests tabulated for its tool
\* and no others: one POST, GET or DELETE, and for memdata_status the health
\* GET followed by the usage GET exactly when the health request got an
\* answer getStatus can read.  Each request carries the bearer header, and
\* the JSON content type exactly when it has a body.  Every request sent is
\* one of these.
C11_TabulatedRequestsOnly ==
  /\ [](\A s \in DOMAIN calls :
          calls[s].st \in {"waiting", "reading", "done"} => TabulatedRequests(calls[s]))
  /\ [][RequestsGrowBy(sent' - sent)]_vars

C11_Witness ==
  \E s \in DOMAIN calls :
    /\ calls[s].st = "done"
    /\ calls[s].tool = "memdata_status"
    /\ Len(calls[s].reqs) = 2
    /\ calls[s].reqs[1] = [method |-> "GET", url |-> "http://h/api/memdata/health",
                           headers |-> [Authorization |-> "Bearer md_k"],
                           body |-> Undefined]
    /\ calls[s].reqs[2].url = "http://h/api/memdata/usage"
    /\ sent = 2

\* C11 (as claimed): every status call that has returned sent two GETs.
C11_StatusSendsTwo ==
  \A s \in DOMAIN calls :
    (calls[s].st = "done" /\ calls[s].tool = "memdata_status") => Len(calls[s].reqs) = 2

\* A remote behaviour that is a failure: a network error, a non-2xx status,
\* a 2xx body that is not JSON, or a 2xx payload flagged success = false.
FailureAnswer(r) ==
  r.failed \/ r.broken \/ NonOk(r) \/ r.json = NotJson \/ FlaggedFailure(r)

\* A call ended in exactly one text block with the error flag set.
ReportsFailure(c) == OneTextBlock(c) /\ c.result.isError

\* C12 (as claimed): a validated call completes with exactly one text block,
\* and with the error flag when the remote behaviour was a failure; the
\* process keeps serving.
C12_FailureIsFlagged ==
  \A s \in DOMAIN calls :
    calls[s].st = "done" =>
      /\ OneTextBlock(calls[s])
      /\ (\E i \in 1..Len(calls[s].resps) : FailureAnswer(calls[s].resps[i])) =>
           ReportsFailure(calls[s])

\* The same for the nine tools other than memdata_status.
C12_FailureIsFlaggedButStatus ==
  \A s \in DOMAIN calls :
    (calls[s].st = "done" /\ calls[s].tool # "memdata_status") =>
      /\ OneTextBlock(calls[s])
      /\ FailureAnswer(LastResponse(calls[s])) => ReportsFailure(calls[s])

\* What the API function of a finished call made of its last answer: the
\* result it returned, or the error it threw to the handler.
AdapterOutcome(c) ==
  LET o == callAPIResult(LastResponse(c)) IN
  CASE c.tool = "memdata_ingest" -> ingestContent(o)
    [] c.tool = "memdata_query" -> queryMemory(o)
    [] c.tool = "memdata_list" -> listArtifacts(o)
    [] c.tool = "memdata_delete" -> deleteArtifact(o)
    [] c.tool = "memdata_status" ->
         IF Len(c.resps) = 2 THEN getStatus(c.isHealthy, o) ELSE getStatusHealth(o).out
    [] c.tool = "memdata_whoami" -> getIdentity(o)
    [] c.tool = "memdata_session_end" -> endSession(o)
    [] c.tool = "memdata_set_identity" -> updateIdentity(o)
    [] c.tool = "memdata_relationships" -> getRelationships(o)
    [] c.tool = "memdata_query_timerange" -> queryMemoryWithDates(o)

\* The fields of each tool's success shape that hold one remote value.
SuccessFields(tool) ==
  CASE tool = "memdata_ingest" -> {"artifactId", "chunkCount"}
    [] tool = "memdata_delete" -> {"deletedChunks"}
    [] tool = "memdata_whoami" -> {"identity", "memory_stats"}
    [] tool = "memdata_relationships" -> {"entity_name", "entity_type"}
    [] OTHER -> {}

\* The fields of each tool's success shape that hold a list or a record.
SuccessParts(tool) ==
  CASE tool \in {"memdata_query", "memdata_query_timerange"} -> {"results"}
    [] tool = "memdata_list" -> {"artifacts"}
    [] tool = "memdata_relationships" -> {"relationships"}
    [] tool = "memdata_status" -> {"healthy", "storage"}
    [] OTHER -> {}

\* C13 (as claimed): the result an API function builds is a success with
\* every field of the tool's success shape present, or a failure that
\* carries the failure message and nothing else.
C13_ResultIsWhole ==
  \A s \in DOMAIN calls :
    (calls[s].st = "done" /\ ~AdapterOutcome(calls[s]).threw) =>
      LET v == AdapterOutcome(calls[s]).value IN
      IF v.success
      THEN /\ SuccessParts(calls[s].tool) \subseteq DOMAIN v
           /\ \A k \in SuccessFields(calls[s].tool) : k \in DOMAIN v /\ v[k] # Undefined
      ELSE DOMAIN v = {"success", "message"}

\* A request that failed: a network error or a non-2xx status.
FailedRequest(r) == r.failed \/ NonOk(r)

\* A call sends a request in this step: its first, at dispatch, or the usage
\* request of memdata_status after a health request that did not fail.
SendsRequest(s) ==
  \/ /\ calls[s].st = "idle" /\ calls'[s].st = "waiting"
     /\ Len(calls'[s].reqs) = 1
  \/ /\ calls[s].st = "reading" /\ calls[s].tool = "memdata_status"
     /\ Len(calls[s].reqs) = 1 /\ Len(calls'[s].reqs) = 2
     /\ ~FailedRequest(calls'[s].resps[1])

\* C15: nothing is retried.  A call whose request failed has returned and
\* that request was its last: neither a repeat nor a later step follows (a
\* failed health request is the only request of its memdata_status call);
\* every request sent is the first of a newly dispatched call, or the usage
\* request after a health request that did not fail.
C15_NoRetry ==
  /\ [](\A s \in DOMAIN calls :
          \A i \in 1..Len(calls[s].resps) :
            FailedRequest(calls[s].resps[i]) =>
              /\ i = Len(calls[s].reqs)
              /\ calls[s].st = "done"
              /\ calls[s].result.isError)
  /\ [][sent' # sent =>
          /\ sent' = sent + 1
          /\ \E s \in DOMAIN calls : SendsRequest(s)]_vars

C15_Witness ==
  \E s \in DOMAIN calls :
    /\ calls[s].st = "done"
    /\ calls[s].tool = "memdata_status"
    /\ calls[s].resps = <<Response(500, "boom", NotJson)>>
    /\ Len(calls[s].reqs) = 1
    /\ calls[s].result.isError
    /\ sent = 1

\* What the confirmation shows for a field: its text when it was sent with a
\* text that is not empty, "(unchanged)" otherwise.
ShownIdentity(body, f) ==
  IF f \in DOMAIN body /\ body[f].v # "" THEN body[f].v ELSE "(unchanged)"

\* C16: memdata_set_identity sends one POST whose body holds exactly the
\* fields the call gave, each unchanged (an absent field is left out, not
\* sent as null or empty), also when it gave none; the confirmation shows
\* "(unchanged)" for exactly the fields that were left out or sent as the
\* empty string, and the text sent for the others.
C16_AbsentFieldsOmitted ==
  \A s \in DOMAIN calls :
    (calls[s].st \in {"waiting", "reading", "done"} /\ calls[s].tool = "memdata_set_identity") =>
      LET q == calls[s].reqs[1] IN
      /\ Len(calls[s].reqs) = 1
      /\ q.method = "POST"
      /\ q.url = MEMDATA_API_URL.v \o "/api/memdata/identity"
      /\ q.body.t = "object"
      /\ q.body.v = calls[s].raw
      /\ \A f \in DOMAIN q.body.v : q.body.v[f] # Null /\ q.body.v[f] # Undefined
      /\ (calls[s].st = "done" /\ ~calls[s].result.isError) =>
           ResultText(calls[s]) =
             "Identity updated:\n- Name: " \o ShownIdentity(q.body.v, "agent_name")
               \o "\n- Summary: " \o ShownIdentity(q.body.v, "identity_summary")

C16_Witness ==
  \E s \in DOMAIN calls :
    /\ calls[s].st = "done"
    /\ calls[s].tool = "memdata_set_identity"
    /\ calls[s].raw = [identity_summary |-> Str("A b")]
    /\ calls[s].reqs[1].body = Obj([identity_summary |-> Str("A b")])
    /\ ResultText(calls[s]) = "Identity updated:\n- Name: (unchanged)\n- Summary: A b"
    /\ sent = 1

\* The body of the request of a time-range call.
DatesBody(c) == c.reqs[1].body.v

\* C17 (amended): the body of a memdata_query_timerange request holds since
\* (until) exactly when the call gave a since (until) that is not the empty
\* string, and then the string given, unchanged, a date or not.
C17_DatesPassedThrough ==
  \A s \in DOMAIN calls :
    (calls[s].st \in {"waiting", "reading", "done"} /\ calls[s].tool = "memdata_query_timerange") =>
      /\ Len(calls[s].reqs) = 1
      /\ \A f \in {"since", "until"} :
           /\ f \in DOMAIN DatesBody(calls[s]) <=>
                (f \in DOMAIN calls[s].raw /\ calls[s].raw[f] # Str(""))
           /\ f \in DOMAIN DatesBody(calls[s]) => DatesBody(calls[s])[f] = calls[s].raw[f]
      /\ DOMAIN DatesBody(calls[s]) \subseteq {"query", "limit", "since", "until"}
      /\ DatesBody(calls[s])["query"] = calls[s].raw["query"]

C17_Witness ==
  \E s \in DOMAIN calls :
    /\ calls[s].st = "waiting"
    /\ calls[s].tool = "memdata_query_timerange"
    /\ calls[s].raw = [query |-> Str("q"), since |-> Str("not a date")]
    /\ DatesBody(calls[s]) =
         [query |-> Str("q"), limit |-> Num(5), since |-> Str("not a date")]
    /\ sent = 1

\* C17 (as claimed): the body holds since (until) exactly when the call gave
\* one, the empty string included.
C17_SuppliedDatesAreSent ==
  \A s \in DOMAIN calls :
    (calls[s].st \in {"waiting", "reading", "done"} /\ calls[s].tool = "memdata_query_timerange") =>
      \A f \in {"since", "until"} :
        f \in DOMAIN DatesBody(calls[s]) <=> f \in DOMAIN calls[s].raw

\* The answer of a finished call as the two API functions read it.
AsQuery(c) == queryMemory(callAPIResult(LastResponse(c)))
AsTimeRange(c) == queryMemoryWithDates(callAPIResult(LastResponse(c)))

\* C18 (as claimed): for the payload a memdata_query_timerange call got, its
\* result carries what the memdata_query result of that payload carries (the
\* narrative and its count, and for each hit the text, source and rounded
\* score) and the date of each hit besides.
C18_TimeRangeCarriesQueryResult ==
  \A s \in DOMAIN calls :
    (calls[s].st = "done" /\ calls[s].tool = "memdata_query_timerange"
       /\ ~AsQuery(calls[s]).threw /\ AsQuery(calls[s]).value.success) =>
      LET q == AsQuery(calls[s]).value
          d == AsTimeRange(calls[s]).value
      IN /\ ~AsTimeRange(calls[s]).threw /\ d.success
         /\ Len(d.results) = Len(q.results)
         /\ \A i \in 1..Len(q.results) :
              /\ d.results[i].text = q.results[i].text
              /\ d.results[i].source = q.results[i].source
              /\ d.results[i].score = q.results[i].score
              /\ d.results[i].date = Str("2026-01-05")
         /\ \A k \in {"narrative", "narrative_count"} :
              q[k] # Undefined => (k \in DOMAIN d /\ d[k] = q[k])

\* The payload of the answer a call got.
Payload(c) == LastResponse(c).json.v

\* The insights a payload holds in a group; none without the group.
GroupInsights(p, g) ==
  IF "narrative" \in DOMAIN p /\ g \in DOMAIN p["narrative"].v
  THEN p["narrative"].v[g].v
  ELSE <<>>

\* The lines of the first n insights of a group, in the order received.
RECURSIVE InsightLines(_, _)
InsightLines(list, n) ==
  IF n = 0 THEN ""
  ELSE InsightLines(list, n - 1)
         \o (IF n = 1 THEN "" ELSE "\n")
         \o "  * " \o list[n].v["content"].v
         \o (IF list[n].v["confidence"].v = 100 THEN " (10%)" ELSE " (90%)")

GroupTitle(g) ==
  CASE g = "decisions" -> "DECISIONS:\n"
    [] g = "causality" -> "CAUSALITY:\n"
    [] g = "patterns" -> "PATTERNS:\n"
    [] g = "implications" -> "IMPLICATIONS:\n"
    [] g = "gaps" -> "GAPS:\n"

HasHit(p) == Len(p["results"].v) >= 1
HasCount(p) == "narrative_count" \in DOMAIN p /\ p["narrative_count"].v > 0

\* C19 (amended): when the payload of a memdata_query answer holds at least
\* one hit and a narrative_count above 0, every insight of every group that
\* is not empty is rendered under the title of its group, in the order
\* received, whatever its confidence; without a narrative_count above 0 no
\* insight is rendered.
C19_InsightsRendered ==
  \A s \in DOMAIN calls :
    (calls[s].st = "done" /\ calls[s].tool = "memdata_query" /\ HasHit(Payload(calls[s]))) =>
      \A g \in {"decisions", "causality", "patterns", "implications", "gaps"} :
        LET list == GroupInsights(Payload(calls[s]), g) IN
        IF HasCount(Payload(calls[s]))
        THEN Len(list) > 0 =>
               Contains(ResultText(calls[s]),
                        "\n" \o GroupTitle(g) \o InsightLines(list, Len(list)) \o "\n")
        ELSE ~Contains(ResultText(calls[s]), GroupTitle(g))

C19_Witness ==
  \E s \in DOMAIN calls :
    /\ calls[s].st = "done"
    /\ calls[s].tool = "memdata_query"
    /\ HasHit(Payload(calls[s])) /\ HasCount(Payload(calls[s]))
    /\ Len(GroupInsights(Payload(calls[s]), "gaps")) = 2
    /\ Len(GroupInsights(Payload(calls[s]), "decisions")) = 1
    /\ Contains(ResultText(calls[s]),
                "=== NARRATIVE INSIGHTS ===\nDECISIONS:\n  * dec1 (10%)\n\n")
    /\ Contains(ResultText(calls[s]), "GAPS:\n  * gap1 (10%)\n  * gap2 (90%)\n\n---\n")

\* C19 (as claimed): when the payload holds at least one hit, every insight
\* of every group that is not empty is rendered.
C19_PresenceImpliesRendering ==
  \A s \in DOMAIN calls :
    (calls[s].st = "done" /\ calls[s].tool = "memdata_query" /\ HasHit(Payload(calls[s]))) =>
      \A g \in {"decisions", "causality", "patterns", "implications", "gaps"} :
        \A i \in 1..Len(GroupInsights(Payload(calls[s]), g)) :
          Contains(ResultText(calls[s]),
                   "  * " \o GroupInsights(Payload(calls[s]), g)[i].v["content"].v \o " (")

\* A call that gave the empty string for a text that must not be empty.
EmptyRequiredText(c) ==
  \/ c.tool = "memdata_ingest" /\ "content" \in DOMAIN c.raw /\ c.raw["content"] = Str("")
  \/ c.tool = "memdata_session_end" /\ "summary" \in DOMAIN c.raw
       /\ c.raw["summary"] = Str("")

\* C20 (as claimed): a memdata_ingest call with the empty string as content,
\* and a memdata_session_end call with the empty string as summary, is
\* refused at dispatch and sends no HTTP request.
C20_EmptyTextIsRejected ==
  \A s \in DOMAIN calls :
    (calls[s].st # "idle" /\ EmptyRequiredText(calls[s])) =>
      calls[s].st = "rejected" /\ calls[s].reqs = <<>>

\* The artifacts a listing call got back, as listArtifacts returns them.
ListedArtifacts(c) == listArtifacts(callAPIResult(LastResponse(c))).value.artifacts

\* The listing ends with the note on the number of memories shown.
NoteShown(c) ==
  EndsWith(ResultText(c),
           "\n\n_Showing " \o ToString(Len(ListedArtifacts(c)))
             \o " memories. Use 'limit' param for more._")

\* The limit of a listing call as sent upstream: the requested limit (20
\* without one), at most 50.
SentListLimit(c) == IF c.args.limit.v > 50 THEN 50 ELSE c.args.limit.v

\* A listing call that was answered with at least one artifact.
Listed(c) ==
  /\ c.tool = "memdata_list"
  /\ c.st = "done"
  /\ ~LastResponse(c).failed
  /\ LastResponse(c).status = 200
  /\ Len(ListedArtifacts(c)) > 0

\* C21 (as claimed): a listing of memdata_list carries the note "Showing N
\* memories. Use 'limit' param for more." exactly when the number of artifacts
\* returned reaches the limit that was sent upstream (the requested limit
\* clamped to 50); a request with a limit above 50 that gets 50 artifacts back
\* shows the note.
C21_NoteAtSentLimit ==
  \A s \in DOMAIN calls :
    Listed(calls[s]) =>
      (NoteShown(calls[s]) <=> Len(ListedArtifacts(calls[s])) >= SentListLimit(calls[s]))

====
